---- MODULE Spec2Model ----
(***************************************************************************)
(* A state-machine model of the top-down action game: the frame loop of    *)
(* controller.py (events, then _update_logic step by step) over the world  *)
(* of model.py (player, enemies, vehicles, ground items, projectiles,      *)
(* inventories) and the score state of settings.py.                        *)
(*                                                                         *)
(* Numbers.  Floats are fixed point: a position is an integer count of     *)
(* 1/SubPix pixel, a rectangle coordinate is an integer count of pixels,   *)
(* time is an integer count of ticks (get_ticks), dt is the ticks of the   *)
(* frame, a speed is sub-pixels per tick.  The configuration of            *)
(* settings.py is kept in shape and scaled down in size.                    *)
(***************************************************************************)
EXTENDS Integers, Sequences, FiniteSets, TLC

VARIABLES
    state,              \* config.state: "START", "PLAYING", "GAME OVER"
    highlithed_button,  \* controller.highlithed_button
    current_score,      \* config.current_score
    highscore,          \* config.highscore
    file,               \* highscore.txt: [exists, text]
    now,                \* pygame.time.get_ticks()
    dt,                 \* the dt of the frame in progress
    pc,                 \* position inside main_loop / _update_logic
    player,             \* the Player
    enemies,            \* enemy_manager.enemies_spawned
    items,              \* item_manager.items_spawned
    bullets,            \* projectile_manager.bullets_on_map
    cars,               \* cars_manager.cars_on_map
    nextId,             \* object identities handed out so far
    log                 \* what the last step did (observations for the properties)

vars == <<state, highlithed_button, current_score, highscore, file,
          now, dt, pc, player, enemies, items, bullets, cars, nextId, log>>

(***************************************************************************)
(* Bounds of the exploration.                                              *)
(***************************************************************************)
MaxTime == 3
\* clock.tick(fps), the ticks of a frame
Ticks == {1}

(***************************************************************************)
(* Configuration (settings.py), scaled.                                    *)
(***************************************************************************)
SubPix == 2
MapW == 8
MapH == 4
PlayerW == 2
PlayerH == 2
PlayerHp == 2
PlayerSpawnX == 2
PlayerSpawnY == 2
PlayerSpeed == 2
PlayerSprintBonus == 1
EnemyHp == 2
EnemySprintBonus == 1
EnemyLimit == 2
EnemyDamage == 1
DecisionSpeed == 2
AttackSpeed == 1
DistanceToChase == 3
FadeTime == 1
PointsGiven == 1
BulletSpeed == 4
BulletSize == 1
Friction == 2
VehiclesAmount == 2
FirstSpawnX == 1
FirstSpawnY == 0
ItemSize == 2
ItemLimit == 1
Capacity == 2
MinTurnSpeed == 1

\* 0.7071, in ten-thousandths
Diagonal == 7071
DiagonalScale == 10000

\* config.spawnable_vehicles (bike, car), angles in units of 90 degrees
spawnable_vehicles ==
    << [hiding |-> FALSE, w |-> 1, h |-> 2, acceleration |-> 2, max_speed |-> 3,
        health |-> 1, rotation_speed |-> 1],
       [hiding |-> TRUE, w |-> 3, h |-> 2, acceleration |-> 1, max_speed |-> 2,
        health |-> 2, rotation_speed |-> 1] >>

\* config.spawnable_weapons; spawn_frequency in hundredths
spawnable_weapons ==
    << [name |-> "Crowbar", low |-> 0, high |-> 20, damage |-> 2,
        projectile_range |-> 4, use_speed |-> 1],
       [name |-> "Pistol", low |-> 30, high |-> 40, damage |-> 1,
        projectile_range |-> 8, use_speed |-> 1],
       [name |-> "Rifle", low |-> 50, high |-> 60, damage |-> 1,
        projectile_range |-> 12, use_speed |-> 1],
       [name |-> "Flamethrower", low |-> 70, high |-> 80, damage |-> 1,
        projectile_range |-> 8, use_speed |-> 1],
       [name |-> "Grenade", low |-> 90, high |-> 100, damage |-> 1,
        projectile_range |-> 16, use_speed |-> 2] >>

menu_options == <<"START GAME", "OPTIONS", "QUIT GAME">>

(***************************************************************************)
(* Inputs: the values the random draws and the devices are sampled from.   *)
(***************************************************************************)
\* random.randint(0, map_size) twice and random.random() in hundredths, as
\* <<x, y, roll>>: an enemy on the player's spawn with a crowbar, and one on
\* the far edge with the roll in a gap
EnemyDraws == {<<2, 2, 10>>, <<MapW, 1, 25>>}
\* an item on the player's spawn (a crowbar), and a roll in a gap
ItemDraws == {<<2, 2, 10>>, <<MapW, 1, 25>>}
\* the keys of _get_key_input, as <<direction_x, direction_y, sprint>>
KeyInputs == {<<0, 0, FALSE>>, <<1, 0, FALSE>>}
\* random.uniform(0, 2*pi): the wander headings, as (cos, sin) in DirScale-ths
DirScale == 2
Headings == {<<DirScale, 0>>, <<0 - DirScale, 0>>}

(***************************************************************************)
(* Arithmetic.                                                             *)
(***************************************************************************)
Abs(n) == IF n < 0 THEN 0 - n ELSE n

\* int(a / b) for b > 0: truncation toward zero
TruncDiv(a, b) == IF a >= 0 THEN a \div b ELSE 0 - ((0 - a) \div b)

\* int(position): a float position (sub-pixels) to a pixel coordinate
ToInt(p) == TruncDiv(p, SubPix)

\* float(coordinate): a pixel coordinate to a float position
ToFloat(c) == c * SubPix

RECURSIVE ISqrtFrom(_, _)
ISqrtFrom(n, r) == IF (r + 1) * (r + 1) > n THEN r ELSE ISqrtFrom(n, r + 1)

\* math.sqrt, rounded down
ISqrt(n) == ISqrtFrom(n, 0)

(***************************************************************************)
(* pygame.Rect: [x, y, w, h] in pixels.                                    *)
(***************************************************************************)
Rect(x, y, w, h) == [x |-> x, y |-> y, w |-> w, h |-> h]

Right(r) == r.x + r.w
Bottom(r) == r.y + r.h
CenterX(r) == r.x + (r.w \div 2)
CenterY(r) == r.y + (r.h \div 2)

\* rect.center = (cx, cy)
SetCenter(r, cx, cy) == [r EXCEPT !.x = cx - (r.w \div 2), !.y = cy - (r.h \div 2)]

\* a.colliderect(b)
CollideRect(a, b) ==
    /\ a.x < b.x + b.w
    /\ a.y < b.y + b.h
    /\ a.x + a.w > b.x
    /\ a.y + a.h > b.y

(***************************************************************************)
(* Item / Weapon.  Identity is the id; id 0 is None.                        *)
(***************************************************************************)
NoItem == [id |-> 0, kind |-> 0, coordinate_x |-> 0, coordinate_y |-> 0,
           last_use_time |-> 0]

\* Weapon(config, x, y, **weapon): kind indexes spawnable_weapons
Weapon(id, x, y, kind) ==
    [id |-> id, kind |-> kind, coordinate_x |-> x, coordinate_y |-> y,
     last_use_time |-> 0]

\* the first catalog entry whose spawn_frequency holds the roll, 0 when none
RECURSIVE RollWeaponFrom(_, _)
RollWeaponFrom(roll, i) ==
    IF i > Len(spawnable_weapons) THEN 0
    ELSE IF spawnable_weapons[i].low <= roll /\ roll <= spawnable_weapons[i].high
         THEN i
         ELSE RollWeaponFrom(roll, i + 1)

RollWeapon(roll) == RollWeaponFrom(roll, 1)

(***************************************************************************)
(* Inventory: [capacity, slots, selected_index]; slots are 0-based in the  *)
(* code and 1-based here (slot i of the code is slots[i + 1]).             *)
(***************************************************************************)
Inventory(capacity) ==
    [capacity |-> capacity,
     slots |-> [i \in 1..capacity |-> NoItem],
     selected_index |-> 0]

\* the lowest index of an empty slot, capacity when there is none
RECURSIVE FirstEmptyFrom(_, _)
FirstEmptyFrom(inv, i) ==
    IF i >= Len(inv.slots) THEN Len(inv.slots)
    ELSE IF inv.slots[i + 1].id = 0 THEN i
         ELSE FirstEmptyFrom(inv, i + 1)

\* add_items' return value without line 1105
AddItemsOkAlways(inv, item) == TRUE

\* add_items' return value
AddItemsOk(inv, item) ==
    \/ inv.slots[inv.selected_index + 1].id = 0
    \/ FirstEmptyFrom(inv, 0) < Len(inv.slots)

\* add_items that always stores into the selected slot
AddItemsSelected(inv, item) ==
    [inv EXCEPT !.slots[inv.selected_index + 1] = item]

\* add_items' effect on the inventory
AddItems(inv, item) ==
    IF inv.slots[inv.selected_index + 1].id = 0
    THEN [inv EXCEPT !.slots[inv.selected_index + 1] = item]
    ELSE IF FirstEmptyFrom(inv, 0) < Len(inv.slots)
         THEN [inv EXCEPT !.slots[FirstEmptyFrom(inv, 0) + 1] = item]
         ELSE inv

\* select_slot with <= capacity where line 1116 has < capacity
SelectSlotToCapacity(inv, index) ==
    IF 0 <= index /\ index <= inv.capacity
    THEN [inv EXCEPT !.selected_index = index]
    ELSE inv

SelectSlot(inv, index) ==
    IF 0 <= index /\ index < inv.capacity
    THEN [inv EXCEPT !.selected_index = index]
    ELSE inv

\* scroll without the wrap-around of line 1130
ScrollNoWrap(inv, direction) ==
    [inv EXCEPT !.selected_index = inv.selected_index + direction]

Scroll(inv, direction) ==
    [inv EXCEPT !.selected_index = (inv.selected_index + direction) % inv.capacity]

(***************************************************************************)
(* Player (model.py).  current_vehicle is the id of a vehicle, 0 for None. *)
(***************************************************************************)
\* Player.__init__
NewPlayer ==
    [position_x |-> ToFloat(PlayerSpawnX), position_y |-> ToFloat(PlayerSpawnY),
     rect |-> Rect(PlayerSpawnX, PlayerSpawnY, PlayerW, PlayerH),
     hp |-> PlayerHp, speed |-> PlayerSpeed, sprint_bonus |-> PlayerSprintBonus,
     inventory |-> Inventory(Capacity), current_vehicle |-> 0, visible |-> TRUE]

\* the displacement direction * current_speed * dt of Player.move, where
\* direction is in DirScale-ths and both is whether the 0.7071 factor applies
Change(direction, current_speed, both, dtt) ==
    IF both
    THEN TruncDiv(direction * current_speed * Diagonal * dtt, DirScale * DiagonalScale)
    ELSE TruncDiv(direction * current_speed * dtt, DirScale)

\* the clamp of one axis without the elif branches of lines 108 and 115
ClampCoordLow(c, extent, limit) == IF c < 0 THEN 0 ELSE c

\* lines 105-110 and 112-117 of Player.move, for one axis: the clamped
\* rectangle coordinate, given the coordinate, the extent and the map size
ClampCoord(c, extent, limit) ==
    IF c < 0 THEN 0
    ELSE IF c + extent > limit THEN limit - extent
         ELSE c

\* whether a clamp fires on the axis
Clamps(c, extent, limit) == c < 0 \/ c + extent > limit

\* Player.move (also Enemy's): a is the actor, the direction is in DirScale-ths
Move(a, direction_x, direction_y, sprint, dtt) ==
    LET current_speed == a.speed + (IF sprint THEN a.sprint_bonus ELSE 0)
        both == direction_x # 0 /\ direction_y # 0
        px == a.position_x + Change(direction_x, current_speed, both, dtt)
        py == a.position_y + Change(direction_y, current_speed, both, dtt)
        rx == ToInt(px)
        ry == ToInt(py)
        cx == ClampCoord(rx, a.rect.w, MapW)
        cy == ClampCoord(ry, a.rect.h, MapH)
    IN  [a EXCEPT !.position_x = IF Clamps(rx, a.rect.w, MapW) THEN ToFloat(cx) ELSE px,
                  !.position_y = IF Clamps(ry, a.rect.h, MapH) THEN ToFloat(cy) ELSE py,
                  !.rect = [a.rect EXCEPT !.x = cx, !.y = cy]]

\* Player.sync_with_vehicle: v is the vehicle current_vehicle refers to
SyncWithVehicle(a, v) ==
    LET r == SetCenter(a.rect, CenterX(v.rect), CenterY(v.rect))
    IN  [a EXCEPT !.rect = r,
                  !.position_x = ToFloat(CenterX(r)),
                  !.position_y = ToFloat(CenterY(r))]

\* item_picker's item_hitbox
ItemHitbox(item) == Rect(item.coordinate_x, item.coordinate_y, ItemSize, ItemSize)

\* the index in the ground list of the item item_picker takes, 0 when none
RECURSIVE PickIndexFrom(_, _, _)
PickIndexFrom(a, ground, i) ==
    IF i > Len(ground) THEN 0
    ELSE IF CollideRect(a.rect, ItemHitbox(ground[i])) /\ AddItemsOk(a.inventory, ground[i])
         THEN i
         ELSE PickIndexFrom(a, ground, i + 1)

PickIndex(a, ground) == PickIndexFrom(a, ground, 1)

\* a sequence without its element i
RemoveAt(s, i) == [j \in 1..(Len(s) - 1) |-> IF j < i THEN s[j] ELSE s[j + 1]]

\* item_picker with an add_items that always takes the first empty slot
ItemPickerActorFirstEmpty(a, ground) ==
    IF PickIndex(a, ground) = 0 THEN a
    ELSE [a EXCEPT !.inventory.slots[FirstEmptyFrom(a.inventory, 0) + 1] =
                       ground[PickIndex(a, ground)]]

\* Player.item_picker: the actor afterwards
ItemPickerActor(a, ground) ==
    IF PickIndex(a, ground) = 0 THEN a
    ELSE [a EXCEPT !.inventory = AddItems(a.inventory, ground[PickIndex(a, ground)])]

\* item_picker without the remove of the item from the ground list
ItemPickerGroundKeeps(a, ground) == ground

\* Player.item_picker: the ground list afterwards
ItemPickerGround(a, ground) ==
    IF PickIndex(a, ground) = 0 THEN ground
    ELSE RemoveAt(ground, PickIndex(a, ground))

\* the item in the selected slot
Selected(inv) == inv.slots[inv.selected_index + 1]

\* Player.item_dropper: the actor afterwards
ItemDropperActor(a) ==
    IF Selected(a.inventory).id # 0
    THEN [a EXCEPT !.inventory.slots[a.inventory.selected_index + 1] = NoItem]
    ELSE a

\* item_dropper without the coordinates of lines 172-173
ItemDropperGroundWhereItWas(a, ground) ==
    IF Selected(a.inventory).id # 0
    THEN Append(ground, Selected(a.inventory))
    ELSE ground

\* Player.item_dropper: the ground list afterwards
ItemDropperGround(a, ground) ==
    IF Selected(a.inventory).id # 0
    THEN Append(ground, [Selected(a.inventory) EXCEPT !.coordinate_x = a.rect.x,
                                                      !.coordinate_y = a.rect.y])
    ELSE ground

(***************************************************************************)
(* Enemy (model.py).                                                       *)
(***************************************************************************)
\* Enemy.__init__, then the weapon of spawn_enemies in slot 0
NewEnemy(id, start_x, start_y, weapon) ==
    [id |-> id,
     position_x |-> ToFloat(start_x), position_y |-> ToFloat(start_y),
     rect |-> Rect(ToInt(ToFloat(start_x)), ToInt(ToFloat(start_y)), PlayerW, PlayerH),
     hp |-> EnemyHp, speed |-> PlayerSpeed, sprint_bonus |-> EnemySprintBonus,
     inventory |-> IF weapon.id = 0 THEN Inventory(Capacity)
                   ELSE [Inventory(Capacity) EXCEPT !.slots[1] = weapon],
     damage |-> EnemyDamage, death_time |-> 0, last_decision_time |-> 0,
     last_attack_time |-> 0, direction |-> <<0, 0>>, does_sprint |-> FALSE]

\* the squared distance of think, in sub-pixels
Distance2(e, p) ==
    (e.position_x - p.position_x) * (e.position_x - p.position_x)
    + (e.position_y - p.position_y) * (e.position_y - p.position_y)

\* math.sqrt, rounded up
CeilSqrt(n) == IF ISqrt(n) * ISqrt(n) = n THEN ISqrt(n) ELSE ISqrt(n) + 1

\* a component of the unit vector: difference / distance, in DirScale-ths
UnitComponent(difference, distance2) ==
    TruncDiv(difference * DirScale, CeilSqrt(distance2))

\* Enemy.think with >= where line 267 has >
ThinkAtInterval(e, p, time, heading) ==
    IF e.hp <= 0 THEN e
    ELSE IF Distance2(e, p) <= (DistanceToChase * SubPix) * (DistanceToChase * SubPix)
    THEN [e EXCEPT !.direction =
                      IF Distance2(e, p) > 0
                      THEN << UnitComponent(p.position_x - e.position_x, Distance2(e, p)),
                              UnitComponent(p.position_y - e.position_y, Distance2(e, p)) >>
                      ELSE e.direction,
                   !.does_sprint = TRUE]
    ELSE IF time - e.last_decision_time >= DecisionSpeed
         THEN [e EXCEPT !.does_sprint = FALSE,
                        !.direction = heading,
                        !.last_decision_time = time]
         ELSE [e EXCEPT !.does_sprint = FALSE]

\* Enemy.think without the test of lines 247-248
ThinkDead(e, p, time, heading) ==
    IF Distance2(e, p) <= (DistanceToChase * SubPix) * (DistanceToChase * SubPix)
    THEN [e EXCEPT !.direction =
                      IF Distance2(e, p) > 0
                      THEN << UnitComponent(p.position_x - e.position_x, Distance2(e, p)),
                              UnitComponent(p.position_y - e.position_y, Distance2(e, p)) >>
                      ELSE e.direction,
                   !.does_sprint = TRUE]
    ELSE IF time - e.last_decision_time > DecisionSpeed
         THEN [e EXCEPT !.does_sprint = FALSE,
                        !.direction = heading,
                        !.last_decision_time = time]
         ELSE [e EXCEPT !.does_sprint = FALSE]

\* Enemy.think: heading is the (cos, sin) of the angle drawn when it re-rolls
Think(e, p, time, heading) ==
    IF e.hp <= 0 THEN e
    ELSE IF Distance2(e, p) <= (DistanceToChase * SubPix) * (DistanceToChase * SubPix)
    THEN [e EXCEPT !.direction =
                      IF Distance2(e, p) > 0
                      THEN << UnitComponent(p.position_x - e.position_x, Distance2(e, p)),
                              UnitComponent(p.position_y - e.position_y, Distance2(e, p)) >>
                      ELSE e.direction,
                   !.does_sprint = TRUE]
    ELSE IF time - e.last_decision_time > DecisionSpeed
         THEN [e EXCEPT !.does_sprint = FALSE,
                        !.direction = heading,
                        !.last_decision_time = time]
         ELSE [e EXCEPT !.does_sprint = FALSE]

\* Enemy.update with the collision tested on the box before the move
AttacksBeforeMove(e, p, dtt, time) ==
    /\ e.hp > 0
    /\ CollideRect(e.rect, p.rect)
    /\ time - e.last_attack_time > AttackSpeed

\* whether Enemy.update attacks: after its move the boxes collide and the
\* attack interval has passed
Attacks(e, p, dtt, time) ==
    /\ e.hp > 0
    /\ CollideRect(Move(e, e.direction[1], e.direction[2], e.does_sprint, dtt).rect, p.rect)
    /\ time - e.last_attack_time > AttackSpeed

\* Enemy.update: the enemy afterwards
UpdateEnemy(e, p, dtt, time) ==
    IF e.hp <= 0 THEN e
    ELSE IF Attacks(e, p, dtt, time)
         THEN [Move(e, e.direction[1], e.direction[2], e.does_sprint, dtt)
                  EXCEPT !.last_attack_time = time]
         ELSE Move(e, e.direction[1], e.direction[2], e.does_sprint, dtt)

\* Enemy.update: the player afterwards
UpdatePlayer(e, p, dtt, time) ==
    IF Attacks(e, p, dtt, time) THEN [p EXCEPT !.hp = p.hp - e.damage] ELSE p

(***************************************************************************)
(* Cars (model.py).  angle counts quarter turns; speeds are sub-pixels per *)
(* tick.                                                                   *)
(***************************************************************************)
\* Cars.__init__ with **vehicle_data, kind indexes spawnable_vehicles
NewCar(id, coordinate_x, coordinate_y, kind) ==
    [id |-> id, kind |-> kind,
     position_x |-> ToFloat(coordinate_x), position_y |-> ToFloat(coordinate_y),
     rect |-> Rect(coordinate_x, coordinate_y,
                   spawnable_vehicles[kind].w, spawnable_vehicles[kind].h),
     max_speed |-> spawnable_vehicles[kind].max_speed,
     acceleration |-> spawnable_vehicles[kind].acceleration,
     rotation_speed |-> spawnable_vehicles[kind].rotation_speed,
     health |-> spawnable_vehicles[kind].health,
     hiding |-> spawnable_vehicles[kind].hiding,
     current_speed |-> 0, angle |-> 0]

\* math.cos(math.radians(angle)) and math.sin, angle in quarter turns
Cos(angle) == CASE angle % 4 = 0 -> 1 [] angle % 4 = 2 -> 0 - 1 [] OTHER -> 0
Sin(angle) == CASE angle % 4 = 1 -> 1 [] angle % 4 = 3 -> 0 - 1 [] OTHER -> 0

\* _acceleration without the tests of lines 463 and 468
AccelerationPastZero(c, direction_y, dtt) ==
    IF direction_y # 0
    THEN IF 0 - direction_y > 0 /\ c.current_speed < c.max_speed
         THEN [c EXCEPT !.current_speed = c.current_speed + c.acceleration * dtt]
         ELSE IF 0 - direction_y < 0 /\ c.current_speed > 0 - c.max_speed
              THEN [c EXCEPT !.current_speed = c.current_speed - c.acceleration * dtt]
              ELSE c
    ELSE IF c.current_speed > 0
         THEN [c EXCEPT !.current_speed = c.current_speed - Friction * dtt]
         ELSE IF c.current_speed < 0
              THEN [c EXCEPT !.current_speed = c.current_speed + Friction * dtt]
              ELSE c

\* Cars._acceleration
Acceleration(c, direction_y, dtt) ==
    IF direction_y # 0
    THEN IF 0 - direction_y > 0 /\ c.current_speed < c.max_speed
         THEN [c EXCEPT !.current_speed = c.current_speed + c.acceleration * dtt]
         ELSE IF 0 - direction_y < 0 /\ c.current_speed > 0 - c.max_speed
              THEN [c EXCEPT !.current_speed = c.current_speed - c.acceleration * dtt]
              ELSE c
    ELSE IF c.current_speed > 0
         THEN [c EXCEPT !.current_speed =
                  IF c.current_speed - Friction * dtt < 0 THEN 0
                  ELSE c.current_speed - Friction * dtt]
         ELSE IF c.current_speed < 0
              THEN [c EXCEPT !.current_speed =
                       IF c.current_speed + Friction * dtt > 0 THEN 0
                       ELSE c.current_speed + Friction * dtt]
              ELSE c

\* Cars._physics
Physics(c, direction_x, dtt) ==
    LET px == c.position_x + c.current_speed * Cos(c.angle) * dtt
        py == c.position_y + c.current_speed * Sin(c.angle) * dtt
    IN  [c EXCEPT !.position_x = px,
                  !.position_y = py,
                  !.rect = [c.rect EXCEPT !.x = ToInt(px), !.y = ToInt(py)],
                  !.angle = IF Abs(c.current_speed) > MinTurnSpeed
                            THEN c.angle + direction_x * c.rotation_speed * dtt
                            ELSE c.angle]

\* _boundaries without the assignments current_speed = 0
BoundariesKeepSpeed(c) ==
    LET cx == ClampCoord(c.rect.x, c.rect.w, MapW)
        cy == ClampCoord(c.rect.y, c.rect.h, MapH)
        fx == Clamps(c.rect.x, c.rect.w, MapW)
        fy == Clamps(c.rect.y, c.rect.h, MapH)
    IN  [c EXCEPT !.rect = [c.rect EXCEPT !.x = cx, !.y = cy],
                  !.position_x = IF fx THEN ToFloat(cx) ELSE c.position_x,
                  !.position_y = IF fy THEN ToFloat(cy) ELSE c.position_y]

\* Cars._boundaries
Boundaries(c) ==
    LET cx == ClampCoord(c.rect.x, c.rect.w, MapW)
        cy == ClampCoord(c.rect.y, c.rect.h, MapH)
        fx == Clamps(c.rect.x, c.rect.w, MapW)
        fy == Clamps(c.rect.y, c.rect.h, MapH)
    IN  [c EXCEPT !.rect = [c.rect EXCEPT !.x = cx, !.y = cy],
                  !.position_x = IF fx THEN ToFloat(cx) ELSE c.position_x,
                  !.position_y = IF fy THEN ToFloat(cy) ELSE c.position_y,
                  !.current_speed = IF fx \/ fy THEN 0 ELSE c.current_speed]

\* drive with _acceleration called before _physics
DriveAccelerationFirst(c, direction_x, direction_y, dtt) ==
    Boundaries(Physics(Acceleration(c, direction_y, dtt), direction_x, dtt))

\* Cars.drive
Drive(c, direction_x, direction_y, dtt) ==
    Boundaries(Acceleration(Physics(c, direction_x, dtt), direction_y, dtt))

(***************************************************************************)
(* Projectile (model.py).                                                  *)
(***************************************************************************)
\* Projectile.__init__; the direction is in DirScale-ths
NewProjectile(id, position_x, position_y, direction_x, direction_y, damage, speed, max_distance) ==
    [id |-> id, position_x |-> ToFloat(position_x), position_y |-> ToFloat(position_y),
     direction_x |-> direction_x, direction_y |-> direction_y,
     damage |-> damage, speed |-> speed, max_distance |-> max_distance,
     distance_travelled |-> 0,
     rect |-> Rect(position_x, position_y, BulletSize, BulletSize)]

\* Projectile.move: the projectile afterwards
ProjectileMove(b, dtt) ==
    LET px == b.position_x + TruncDiv(b.speed * dtt * b.direction_x, DirScale)
        py == b.position_y + TruncDiv(b.speed * dtt * b.direction_y, DirScale)
    IN  [b EXCEPT !.position_x = px,
                  !.position_y = py,
                  !.rect = [b.rect EXCEPT !.x = ToInt(px), !.y = ToInt(py)],
                  !.distance_travelled = b.distance_travelled + b.speed * dtt]

\* move expiring a projectile already when it reaches its range
ProjectileMoveResultAtRange(b, dtt) ==
    ~(ProjectileMove(b, dtt).distance_travelled >= b.max_distance)

\* Projectile.move: its return value
ProjectileMoveResult(b, dtt) ==
    ~(ProjectileMove(b, dtt).distance_travelled > b.max_distance)

(***************************************************************************)
(* Managers (model.py).  A draw is what one pass of a spawn loop takes     *)
(* from the random generator, with the identities of the objects it makes: *)
(* [x, y, roll, eid, wid].                                                 *)
(***************************************************************************)
\* a list without the element of identity id (list.remove of that object)
RemoveId(s, id) == SelectSeq(s, LAMBDA o : o.id # id)

\* a list with the element of o's identity replaced by o
ReplaceId(s, o) == [j \in 1..Len(s) |-> IF s[j].id = o.id THEN o ELSE s[j]]

\* the identities of a list's elements
Ids(s) == {s[j].id : j \in 1..Len(s)}

\* the weapon a draw's roll gives (lines 342-350), NoItem for a gap
DrawWeapon(d, x, y) ==
    IF RollWeapon(d.roll) = 0 THEN NoItem ELSE Weapon(d.wid, x, y, RollWeapon(d.roll))

\* Enemy_Manager.spawn_enemies: [list, rest] are the list afterwards and the
\* draws not taken
RECURSIVE SpawnEnemies(_, _)
SpawnEnemies(es, ds) ==
    IF Len(es) >= EnemyLimit \/ ds = <<>> THEN [list |-> es, rest |-> ds]
    ELSE SpawnEnemies(
             Append(es, NewEnemy(Head(ds).eid, Head(ds).x, Head(ds).y,
                                 DrawWeapon(Head(ds), 0, 0))),
             Tail(ds))

\* the condition of replace_dead_enemies with > where line 369 has >=
FadedLater(e, time) == e.hp <= 0 /\ time - e.death_time > FadeTime

\* the condition of replace_dead_enemies without the fade time
FadedAtDeath(e, time) == e.hp <= 0

\* the condition of replace_dead_enemies
Faded(e, time) == e.hp <= 0 /\ time - e.death_time >= FadeTime

\* Enemy_Manager.replace_dead_enemies over the copy of the list
RECURSIVE ReplaceDeadFrom(_, _, _, _)
ReplaceDeadFrom(es, copy, ds, time) ==
    IF copy = <<>> THEN [list |-> es, rest |-> ds]
    ELSE IF Faded(Head(copy), time)
         THEN ReplaceDeadFrom(SpawnEnemies(RemoveId(es, Head(copy).id), ds).list,
                              Tail(copy),
                              SpawnEnemies(RemoveId(es, Head(copy).id), ds).rest,
                              time)
         ELSE ReplaceDeadFrom(es, Tail(copy), ds, time)

\* replace_dead_enemies without the spawn_enemies call of line 372
ReplaceDeadEnemiesNoSpawn(es, ds, time) ==
    [list |-> SelectSeq(es, LAMBDA e : ~Faded(e, time)), rest |-> ds]

ReplaceDeadEnemies(es, ds, time) == ReplaceDeadFrom(es, es, ds, time)

\* Item_Manager.spawn_items: one draw per pass of the loop
RECURSIVE SpawnItems(_, _)
SpawnItems(ground, ds) ==
    IF ds = <<>> THEN ground
    ELSE SpawnItems(
             IF RollWeapon(Head(ds).roll) = 0 THEN ground
             ELSE Append(ground, DrawWeapon(Head(ds), Head(ds).x, Head(ds).y)),
             Tail(ds))

\* Cars_Manager.spawn_cars from spawn_offset on; k is the place in
\* spawnable_vehicles, base the identities handed out before
RECURSIVE SpawnCarsFrom(_, _, _, _)
SpawnCarsFrom(cs, spawn_offset, k, base) ==
    IF Len(cs) >= VehiclesAmount THEN cs
    ELSE SpawnCarsFrom(
             Append(cs, NewCar(base + spawn_offset, FirstSpawnX * spawn_offset,
                               FirstSpawnY, k)),
             spawn_offset + 1,
             (k % Len(spawnable_vehicles)) + 1,
             base)

SpawnCars(cs, base) == SpawnCarsFrom(cs, 1, 1, base)

\* the index of the first enemy a projectile hits (lines 1040-1041), 0 when none
RECURSIVE FirstHitFrom(_, _, _)
FirstHitFrom(b, es, i) ==
    IF i > Len(es) THEN 0
    ELSE IF CollideRect(b.rect, es[i].rect) /\ es[i].hp > 0 THEN i
         ELSE FirstHitFrom(b, es, i + 1)

\* the collision loop without the break of line 1050: the last enemy hit
LastHit(b, es) ==
    IF FirstHitFrom(b, es, 1) = 0 THEN 0
    ELSE CHOOSE i \in 1..Len(es) :
             /\ CollideRect(b.rect, es[i].rect) /\ es[i].hp > 0
             /\ \A j \in (i + 1)..Len(es) : ~(CollideRect(b.rect, es[j].rect) /\ es[j].hp > 0)

FirstHit(b, es) == FirstHitFrom(b, es, 1)

\* lines 1042-1047 without the death_time of line 1046
HitEnemyUnstamped(e, damage, time) ==
    IF e.hp - damage <= 0
    THEN ItemDropperActor([e EXCEPT !.hp = e.hp - damage])
    ELSE [e EXCEPT !.hp = e.hp - damage]

\* lines 1042-1047: the enemy a projectile of this damage has hit
HitEnemy(e, damage, time) ==
    IF e.hp - damage <= 0
    THEN ItemDropperActor([e EXCEPT !.hp = e.hp - damage, !.death_time = time])
    ELSE [e EXCEPT !.hp = e.hp - damage]

\* move_projectiles with the loop over the list itself: after a removal the
\* loop passes over the projectile that took the removed one's place
RECURSIVE MoveProjectilesFromList(_, _, _, _)
MoveProjectilesFromList(w, copy, dtt, time) ==
    IF copy = <<>> THEN w
    ELSE IF ~ProjectileMoveResult(Head(copy), dtt)
    THEN MoveProjectilesFromList(
             [w EXCEPT !.bullets = RemoveId(w.bullets, Head(copy).id),
                       !.expired = Append(w.expired,
                                          [bullet |-> Head(copy).id,
                                           rect |-> ProjectileMove(Head(copy), dtt).rect])],
             IF Len(copy) > 1 THEN Tail(Tail(copy)) ELSE <<>>, dtt, time)
    ELSE IF FirstHit(ProjectileMove(Head(copy), dtt), w.enemies) = 0
    THEN MoveProjectilesFromList(
             [w EXCEPT !.bullets = ReplaceId(w.bullets, ProjectileMove(Head(copy), dtt))],
             Tail(copy), dtt, time)
    ELSE LET k == FirstHit(ProjectileMove(Head(copy), dtt), w.enemies)
             e == w.enemies[k]
             dead == e.hp - Head(copy).damage <= 0
         IN  MoveProjectilesFromList(
                 [bullets |-> RemoveId(w.bullets, Head(copy).id),
                  expired |-> w.expired,
                  enemies |-> [w.enemies EXCEPT ![k] = HitEnemy(e, Head(copy).damage, time)],
                  items |-> IF dead THEN ItemDropperGround(e, w.items) ELSE w.items,
                  score |-> IF dead THEN w.score + PointsGiven ELSE w.score,
                  hits |-> Append(w.hits, [bullet |-> Head(copy).id, enemy |-> e.id,
                                               rect |-> ProjectileMove(Head(copy), dtt).rect])],
                 IF Len(copy) > 1 THEN Tail(Tail(copy)) ELSE <<>>, dtt, time)

\* move_projectiles with the collision loop before the test of the move's
\* result
RECURSIVE MoveProjectilesFromHitFirst(_, _, _, _)
MoveProjectilesFromHitFirst(w, copy, dtt, time) ==
    IF copy = <<>> THEN w
    ELSE IF FirstHit(ProjectileMove(Head(copy), dtt), w.enemies) = 0
    THEN MoveProjectilesFromHitFirst(
             IF ~ProjectileMoveResult(Head(copy), dtt)
             THEN [w EXCEPT !.bullets = RemoveId(w.bullets, Head(copy).id),
                            !.expired = Append(w.expired,
                                               [bullet |-> Head(copy).id,
                                                rect |-> ProjectileMove(Head(copy), dtt).rect])]
             ELSE [w EXCEPT !.bullets = ReplaceId(w.bullets, ProjectileMove(Head(copy), dtt))],
             Tail(copy), dtt, time)
    ELSE LET k == FirstHit(ProjectileMove(Head(copy), dtt), w.enemies)
             e == w.enemies[k]
             dead == e.hp - Head(copy).damage <= 0
         IN  MoveProjectilesFromHitFirst(
                 [bullets |-> RemoveId(w.bullets, Head(copy).id),
                  expired |-> w.expired,
                  enemies |-> [w.enemies EXCEPT ![k] = HitEnemy(e, Head(copy).damage, time)],
                  items |-> IF dead THEN ItemDropperGround(e, w.items) ELSE w.items,
                  score |-> IF dead THEN w.score + PointsGiven ELSE w.score,
                  hits |-> Append(w.hits, [bullet |-> Head(copy).id, enemy |-> e.id,
                                               rect |-> ProjectileMove(Head(copy), dtt).rect])],
                 Tail(copy), dtt, time)

\* Projectile_Manager.move_projectiles over the copy of the list;
\* w is [bullets, enemies, items, score, hits, expired], hits being the record
\* of the collisions found: the projectile, the enemy, the projectile's box,
\* and expired that of the projectiles whose move returned False
RECURSIVE MoveProjectilesFrom(_, _, _, _)
MoveProjectilesFrom(w, copy, dtt, time) ==
    IF copy = <<>> THEN w
    ELSE IF ~ProjectileMoveResult(Head(copy), dtt)
    THEN MoveProjectilesFrom(
             [w EXCEPT !.bullets = RemoveId(w.bullets, Head(copy).id),
                       !.expired = Append(w.expired,
                                          [bullet |-> Head(copy).id,
                                           rect |-> ProjectileMove(Head(copy), dtt).rect])],
             Tail(copy), dtt, time)
    ELSE IF FirstHit(ProjectileMove(Head(copy), dtt), w.enemies) = 0
    THEN MoveProjectilesFrom(
             [w EXCEPT !.bullets = ReplaceId(w.bullets, ProjectileMove(Head(copy), dtt))],
             Tail(copy), dtt, time)
    ELSE LET k == FirstHit(ProjectileMove(Head(copy), dtt), w.enemies)
             e == w.enemies[k]
             dead == e.hp - Head(copy).damage <= 0
         IN  MoveProjectilesFrom(
                 [bullets |-> RemoveId(w.bullets, Head(copy).id),
                  expired |-> w.expired,
                  enemies |-> [w.enemies EXCEPT ![k] = HitEnemy(e, Head(copy).damage, time)],
                  items |-> IF dead THEN ItemDropperGround(e, w.items) ELSE w.items,
                  score |-> IF dead THEN w.score + PointsGiven ELSE w.score,
                  hits |-> Append(w.hits, [bullet |-> Head(copy).id, enemy |-> e.id,
                                               rect |-> ProjectileMove(Head(copy), dtt).rect])],
                 Tail(copy), dtt, time)

MoveProjectiles(bs, es, ground, score, dtt, time) ==
    MoveProjectilesFrom([bullets |-> bs, enemies |-> es, items |-> ground,
                         score |-> score, hits |-> <<>>, expired |-> <<>>],
                        bs, dtt, time)

\* the enemy loop of _update_logic (lines 452-454) from enemy i on: think, then
\* update, each against the player as the enemies before it left it;
\* hs[i] is the heading enemy i draws if it re-rolls
RECURSIVE EnemiesFrom(_, _, _, _, _, _)
EnemiesFrom(es, p, i, hs, dtt, time) ==
    IF i > Len(es) THEN [enemies |-> es, player |-> p]
    ELSE EnemiesFrom(
             [es EXCEPT ![i] = UpdateEnemy(Think(es[i], p, time, hs[i]), p, dtt, time)],
             UpdatePlayer(Think(es[i], p, time, hs[i]), p, dtt, time),
             i + 1, hs, dtt, time)

(***************************************************************************)
(* Config.load_high_score / save_high_score (settings.py).  The file is    *)
(* [exists, text]; a character is a digit 0..9 or Junk.                    *)
(***************************************************************************)
Junk == 10

\* str(n) with the digits in the order the division yields them
RECURSIVE StrLowFirst(_)
StrLowFirst(n) == IF n < 10 THEN <<n>> ELSE <<n % 10>> \o StrLowFirst(n \div 10)

\* str(n) for n >= 0
RECURSIVE Str(_)
Str(n) == IF n < 10 THEN <<n>> ELSE Append(Str(n \div 10), n % 10)

\* whether int(text) succeeds
Parses(text) == text # <<>> /\ \A j \in 1..Len(text) : text[j] < Junk

\* int(text) of a text that parses
RECURSIVE IntOf(_)
IntOf(text) ==
    IF text = <<>> THEN 0
    ELSE IntOf(SubSeq(text, 1, Len(text) - 1)) * 10 + text[Len(text)]

LoadHighScore(f) == IF f.exists /\ Parses(f.text) THEN IntOf(f.text) ELSE 0

SaveHighScore(score) == [exists |-> TRUE, text |-> Str(score)]

(***************************************************************************)
(* The program: main.py's construction, then main_loop of controller.py.   *)
(***************************************************************************)
\* the draws of a spawn loop of n passes, identities after base
DrawSets(n, base, draws) ==
    { [j \in 1..n |-> [x |-> f[j][1], y |-> f[j][2], roll |-> f[j][3],
                       eid |-> base.enemy + j, wid |-> base.item + j]] :
      f \in [1..n -> draws] }

NoIds == [enemy |-> 0, item |-> 0, bullet |-> 0, car |-> 0]

\* the files the game may find at start-up
InitFiles == { [exists |-> FALSE, text |-> <<>>], [exists |-> TRUE, text |-> <<1>>] }

NoLog == [hits |-> <<>>, click |-> FALSE, expired |-> <<>>]

\* main(): Config(), Player, spawn_enemies, spawn_items, Controller
InitWith(files, enemyDraws, itemDraws) ==
    /\ state = "START"
    /\ highlithed_button = 0
    /\ current_score = 0
    /\ file \in files
    /\ highscore = LoadHighScore(file)
    /\ now = 0
    /\ dt = 0
    /\ pc = "events"
    /\ player = NewPlayer
    /\ \E ds \in DrawSets(EnemyLimit, NoIds, enemyDraws) : enemies = SpawnEnemies(<<>>, ds).list
    /\ \E ds \in DrawSets(ItemLimit, [NoIds EXCEPT !.item = EnemyLimit], itemDraws) :
           items = SpawnItems(<<>>, ds)
    /\ bullets = <<>>
    /\ cars = <<>>
    /\ nextId = [NoIds EXCEPT !.enemy = EnemyLimit, !.item = EnemyLimit + ItemLimit]
    /\ log = NoLog

\* the vehicle current_vehicle refers to: its index in cars_on_map, 0 when none
CarIndex(id) ==
    IF \E j \in 1..Len(cars) : cars[j].id = id
    THEN CHOOSE j \in 1..Len(cars) : cars[j].id = id
    ELSE 0

\* the first vehicle the player's box overlaps (lines 315-316), 0 when none
RECURSIVE FirstCarFrom(_, _, _)
FirstCarFrom(p, cs, i) ==
    IF i > Len(cs) THEN 0
    ELSE IF CollideRect(p.rect, cs[i].rect) THEN i
         ELSE FirstCarFrom(p, cs, i + 1)

\* vehicle_handler without the return of line 313: the scan follows the exit
VehicleHandlerPlayerScans(p, cs) ==
    IF FirstCarFrom(p, cs, 1) = 0
    THEN [p EXCEPT !.visible = TRUE, !.current_vehicle = 0]
    ELSE LET v == cs[FirstCarFrom(p, cs, 1)]
         IN  [p EXCEPT !.current_vehicle = v.id,
                       !.rect = SetCenter(p.rect, CenterX(v.rect), CenterY(v.rect)),
                       !.visible = ~v.hiding]

\* Controller.vehicle_handler on a K_e key: the player afterwards
VehicleHandlerPlayer(p, cs) ==
    IF p.current_vehicle # 0
    THEN [p EXCEPT !.visible = TRUE, !.current_vehicle = 0]
    ELSE IF FirstCarFrom(p, cs, 1) = 0 THEN p
         ELSE LET v == cs[FirstCarFrom(p, cs, 1)]
              IN  [p EXCEPT !.current_vehicle = v.id,
                            !.rect = SetCenter(p.rect, CenterX(v.rect), CenterY(v.rect)),
                            !.visible = ~v.hiding]

\* Controller.vehicle_handler on a K_e key: the vehicles afterwards
VehicleHandlerCars(p, cs) ==
    IF p.current_vehicle # 0 \/ FirstCarFrom(p, cs, 1) = 0 THEN cs
    ELSE LET v == cs[FirstCarFrom(p, cs, 1)]
         IN  [cs EXCEPT ![FirstCarFrom(p, cs, 1)] =
                 [v EXCEPT !.position_x = ToFloat(v.rect.x),
                           !.position_y = ToFloat(v.rect.y)]]

\* reset_game's player without line 367
ResetPlayerInVehicle(p) ==
    [p EXCEPT !.hp = PlayerHp,
              !.position_x = ToFloat(PlayerSpawnX),
              !.position_y = ToFloat(PlayerSpawnY),
              !.rect = [p.rect EXCEPT !.x = PlayerSpawnX, !.y = PlayerSpawnY],
              !.inventory = Inventory(Capacity)]

\* Controller.reset_game: the player afterwards
ResetPlayer(p) ==
    [p EXCEPT !.hp = PlayerHp,
              !.position_x = ToFloat(PlayerSpawnX),
              !.position_y = ToFloat(PlayerSpawnY),
              !.rect = [p.rect EXCEPT !.x = PlayerSpawnX, !.y = PlayerSpawnY],
              !.inventory = Inventory(Capacity),
              !.current_vehicle = 0]

\* Controller.reset_game; the identities of enemies, items and projectiles
\* start again, nothing holding one of the old ones; the vehicles are new
\* objects, told from the ones current_vehicle may still refer to
ResetGame(enemyDraws, itemDraws) ==
    /\ state' = "PLAYING"
    /\ current_score' = 0
    /\ player' = ResetPlayer(player)
    /\ \E ds \in DrawSets(EnemyLimit, NoIds, enemyDraws) : enemies' = SpawnEnemies(<<>>, ds).list
    /\ cars' = SpawnCars(<<>>, nextId.car)
    /\ \E ds \in DrawSets(ItemLimit, [NoIds EXCEPT !.item = EnemyLimit], itemDraws) :
           items' = SpawnItems(<<>>, ds)
    /\ bullets' = <<>>
    /\ nextId' = [enemy |-> EnemyLimit, item |-> EnemyLimit + ItemLimit,
                  bullet |-> 0, car |-> nextId.car + VehiclesAmount]
    /\ UNCHANGED <<highscore, file>>

\* lines 394-398: the button the mouse is over (hover 0: none) is highlighted
Hovered(hover) == IF hover = 0 THEN highlithed_button ELSE hover - 1

\* lines 412-415 and 422-425: the highlighted button is confirmed: START GAME
\* resets the game, OPTIONS opens the settings file and changes nothing here
Confirm(button, enemyDraws, itemDraws) ==
    IF button = 0
    THEN ResetGame(enemyDraws, itemDraws)
    ELSE UNCHANGED <<state, current_score, highscore, file, player, enemies, items,
                     bullets, cars, nextId>>

InMenu == state = "START" \/ state = "GAME OVER"

\* _handle_events in a menu, a K_UP (-1) or K_DOWN (1) key
EventMenuMove(hover, step) ==
    /\ pc = "events" /\ InMenu
    /\ highlithed_button' = (Hovered(hover) + step) % Len(menu_options)
    /\ UNCHANGED <<state, current_score, highscore, file, now, dt, pc,
                   player, enemies, items, bullets, cars, nextId, log>>

\* _handle_events in a menu, a K_RETURN key or a left mouse button; on QUIT GAME
\* main_loop ends, and the model follows the run no further
EventMenuConfirm(hover, enemyDraws, itemDraws) ==
    /\ pc = "events" /\ InMenu
    /\ Hovered(hover) # 2
    /\ highlithed_button' = Hovered(hover)
    /\ Confirm(Hovered(hover), enemyDraws, itemDraws)
    /\ UNCHANGED <<now, dt, pc, log>>

\* inventory_handler, a MOUSEWHEEL event of event.y = y
EventMouseWheel(y) ==
    /\ pc = "events" /\ state = "PLAYING"
    /\ player' = [player EXCEPT !.inventory = Scroll(player.inventory, 0 - y)]
    /\ UNCHANGED <<state, highlithed_button, current_score, highscore, file,
                   now, dt, pc, enemies, items, bullets, cars, nextId, log>>

\* config.inventory_key_map: the keys K_1.. to the slots 0..
inventory_key_map == [k \in 1..Capacity |-> k - 1]

\* inventory_handler, a key of inventory_key_map
EventKeyNumber(k) ==
    /\ pc = "events" /\ state = "PLAYING"
    /\ player' = [player EXCEPT !.inventory = SelectSlot(player.inventory, inventory_key_map[k])]
    /\ UNCHANGED <<state, highlithed_button, current_score, highscore, file,
                   now, dt, pc, enemies, items, bullets, cars, nextId, log>>

\* a K_e key: item_picker of inventory_handler, then vehicle_handler
EventKeyE ==
    /\ pc = "events" /\ state = "PLAYING"
    /\ player' = VehicleHandlerPlayer(ItemPickerActor(player, items), cars)
    /\ items' = ItemPickerGround(player, items)
    /\ cars' = VehicleHandlerCars(ItemPickerActor(player, items), cars)
    /\ UNCHANGED <<state, highlithed_button, current_score, highscore, file,
                   now, dt, pc, enemies, bullets, nextId, log>>

\* a K_q key: item_dropper of inventory_handler
EventKeyQ ==
    /\ pc = "events" /\ state = "PLAYING"
    /\ player' = ItemDropperActor(player)
    /\ items' = ItemDropperGround(player, items)
    /\ UNCHANGED <<state, highlithed_button, current_score, highscore, file,
                   now, dt, pc, enemies, bullets, cars, nextId, log>>

\* the high score taken from the run's score without the test of line 448
GameOverScoreUntested == current_score

\* lines 446-450 of _update_logic: the new high score
GameOverScore == IF current_score > highscore THEN current_score ELSE highscore

\* main_loop: clock.tick, and _update_logic to its line 450, while the clock
\* stays within limit
Frame(tick, limit) ==
    /\ pc = "events"
    /\ now + tick <= limit
    /\ now' = now + tick
    /\ dt' = tick
    /\ log' = NoLog
    /\ IF state # "PLAYING"
       THEN UNCHANGED <<state, highscore, file, pc>>
       ELSE /\ pc' = "enemies"
            /\ IF player.hp <= 0
               THEN /\ state' = "GAME OVER"
                    /\ highscore' = GameOverScore
                    /\ file' = IF current_score > highscore
                               THEN SaveHighScore(GameOverScore) ELSE file
               ELSE UNCHANGED <<state, highscore, file>>
    /\ UNCHANGED <<highlithed_button, current_score, player, enemies, items,
                   bullets, cars, nextId>>

BeginFrame(tick) == Frame(tick, MaxTime)

\* _update_logic, lines 452-454: every enemy thinks and updates
StepEnemies(hs) ==
    /\ pc = "enemies"
    /\ enemies' = EnemiesFrom(enemies, player, 1, hs, dt, now).enemies
    /\ player' = EnemiesFrom(enemies, player, 1, hs, dt, now).player
    /\ pc' = "movement"
    /\ UNCHANGED <<state, highlithed_button, current_score, highscore, file,
                   now, dt, items, bullets, cars, nextId, log>>

\* movement_handler without the test of line 162: the player always walks
MovementHandlerPlayerOnFoot(p, cs, direction_x, direction_y, sprint, dtt) ==
    Move(p, direction_x * DirScale, direction_y * DirScale, sprint, dtt)

\* Controller.movement_handler with the keys' direction and sprint
MovementHandlerPlayer(p, cs, direction_x, direction_y, sprint, dtt) ==
    IF p.current_vehicle = 0
    THEN Move(p, direction_x * DirScale, direction_y * DirScale, sprint, dtt)
    ELSE IF CarIndex(p.current_vehicle) = 0 THEN p
         ELSE SyncWithVehicle(p, Drive(cs[CarIndex(p.current_vehicle)],
                                       direction_x, direction_y, dtt))

\* movement_handler driving every vehicle of cars_on_map
MovementHandlerCarsAll(p, cs, direction_x, direction_y, dtt) ==
    [j \in 1..Len(cs) |-> Drive(cs[j], direction_x, direction_y, dtt)]

MovementHandlerCars(p, cs, direction_x, direction_y, dtt) ==
    IF p.current_vehicle = 0 \/ CarIndex(p.current_vehicle) = 0 THEN cs
    ELSE [cs EXCEPT ![CarIndex(p.current_vehicle)] =
             Drive(cs[CarIndex(p.current_vehicle)], direction_x, direction_y, dtt)]

\* _update_logic, line 456
StepMovement(direction_x, direction_y, sprint) ==
    /\ pc = "movement"
    /\ player' = MovementHandlerPlayer(player, cars, direction_x, direction_y, sprint, dt)
    /\ cars' = MovementHandlerCars(player, cars, direction_x, direction_y, dt)
    /\ pc' = "use"
    /\ UNCHANGED <<state, highlithed_button, current_score, highscore, file,
                   now, dt, enemies, items, bullets, nextId, log>>

\* the mouse, as its offset in pixels from the centre of the player's box
Aims == {<<1, 0>>, <<0, 0>>}

\* Controller.calculate_vector, a component in DirScale-ths
CalculateVector(difference, other) ==
    IF difference * difference + other * other > 0
    THEN UnitComponent(difference, difference * difference + other * other)
    ELSE 0

\* _is_item_ready with >= where line 209 has >
IsItemReadyAtSpeed(item, time) == time - item.last_use_time >= spawnable_weapons[item.kind].use_speed

\* Controller._is_item_ready
IsItemReady(item, time) == time - item.last_use_time > spawnable_weapons[item.kind].use_speed

\* whether use_handler fires
Fires(p, click, time) ==
    /\ click
    /\ Selected(p.inventory).id # 0
    /\ IsItemReady(Selected(p.inventory), time)

\* _update_logic, line 457: Controller.use_handler and _spawn_projectile
StepUse(click, aim) ==
    /\ pc = "use"
    /\ IF Fires(player, click, now)
       THEN /\ player' = [player EXCEPT
                            !.inventory.slots[player.inventory.selected_index + 1].last_use_time = now]
            /\ bullets' = Append(bullets,
                   NewProjectile(nextId.bullet + 1, CenterX(player.rect), CenterY(player.rect),
                                 CalculateVector(aim[1], aim[2]), CalculateVector(aim[2], aim[1]),
                                 spawnable_weapons[Selected(player.inventory).kind].damage,
                                 BulletSpeed,
                                 spawnable_weapons[Selected(player.inventory).kind].projectile_range))
            /\ nextId' = [nextId EXCEPT !.bullet = @ + 1]
       ELSE UNCHANGED <<player, bullets, nextId>>
    /\ log' = [log EXCEPT !.click = click]
    /\ pc' = "projectiles"
    /\ UNCHANGED <<state, highlithed_button, current_score, highscore, file,
                   now, dt, enemies, items, cars>>

\* _update_logic, lines 458-460
StepProjectiles ==
    /\ pc = "projectiles"
    /\ LET w == MoveProjectiles(bullets, enemies, items, current_score, dt, now)
       IN  /\ bullets' = w.bullets
           /\ enemies' = w.enemies
           /\ items' = w.items
           /\ current_score' = w.score
           /\ log' = [log EXCEPT !.hits = w.hits, !.expired = w.expired]
    /\ pc' = "maintain"
    /\ UNCHANGED <<state, highlithed_button, highscore, file, now, dt,
                   player, cars, nextId>>

\* how many draws lines 462-463 take: the top-up, then one per faded enemy
DrawsNeeded ==
    (IF Len(enemies) < EnemyLimit THEN EnemyLimit - Len(enemies) ELSE 0)
    + Cardinality({j \in 1..Len(enemies) : Faded(enemies[j], now)})

\* _update_logic, lines 462-464: spawn_enemies, replace_dead_enemies, spawn_cars
StepMaintain(enemyDraws) ==
    /\ pc = "maintain"
    /\ \E ds \in DrawSets(DrawsNeeded, nextId, enemyDraws) :
           enemies' = ReplaceDeadEnemies(SpawnEnemies(enemies, ds).list,
                                         SpawnEnemies(enemies, ds).rest, now).list
    /\ cars' = SpawnCars(cars, nextId.car)
    /\ nextId' = [nextId EXCEPT !.enemy = @ + DrawsNeeded, !.item = @ + DrawsNeeded,
                                !.car = @ + VehiclesAmount - Len(cars)]
    /\ log' = NoLog
    /\ pc' = "events"
    /\ UNCHANGED <<state, highlithed_button, current_score, highscore, file,
                   now, dt, player, items, bullets>>

Init == InitWith(InitFiles, EnemyDraws, ItemDraws)

Next ==
    \/ \E hover \in 0..Len(menu_options), step \in {0 - 1, 1} : EventMenuMove(hover, step)
    \/ \E hover \in 0..Len(menu_options) : EventMenuConfirm(hover, EnemyDraws, ItemDraws)
    \/ \E y \in {0 - 1, 1} : EventMouseWheel(y)
    \/ \E k \in DOMAIN inventory_key_map : EventKeyNumber(k)
    \/ EventKeyE
    \/ EventKeyQ
    \/ \E tick \in Ticks : BeginFrame(tick)
    \/ \E hs \in [1..Len(enemies) -> Headings] : StepEnemies(hs)
    \/ \E keys \in KeyInputs : StepMovement(keys[1], keys[2], keys[3])
    \/ \E click \in BOOLEAN, aim \in Aims : StepUse(click, aim)
    \/ StepProjectiles
    \/ StepMaintain(EnemyDraws)

Spec == Init /\ [][Next]_vars

(***************************************************************************)
(* The Inventory class alone (model.py 1068-1130): an inventory of any     *)
(* capacity up to MaxCapacity, held by a player standing at the spawn      *)
(* point, under add_items of up to MaxItems fresh items, select_slot and   *)
(* scroll with any argument of magnitude up to MaxIndex, and item_dropper, *)
(* which empties the selected slot.  log records the last call.            *)
(***************************************************************************)
MaxCapacity == 3
MaxItems == 4
MaxIndex == 5

InventoryInit ==
    /\ state = "PLAYING"
    /\ highlithed_button = 0
    /\ current_score = 0
    /\ highscore = 0
    /\ file = [exists |-> FALSE, text |-> <<>>]
    /\ now = 0
    /\ dt = 0
    /\ pc = "inventory"
    /\ \E capacity \in 1..MaxCapacity :
           player = [NewPlayer EXCEPT !.inventory = Inventory(capacity)]
    /\ enemies = <<>>
    /\ items = <<>>
    /\ bullets = <<>>
    /\ cars = <<>>
    /\ nextId = NoIds
    /\ log = [op |-> "init"]

InventoryAddItems ==
    /\ pc = "inventory"
    /\ nextId.item < MaxItems
    /\ LET item == Weapon(nextId.item + 1, 0, 0, 1)
       IN  /\ player' = [player EXCEPT !.inventory = AddItems(player.inventory, item)]
           /\ log' = [op |-> "add_items", item |-> item,
                      result |-> AddItemsOk(player.inventory, item),
                      before |-> player.inventory]
    /\ nextId' = [nextId EXCEPT !.item = @ + 1]
    /\ UNCHANGED <<state, highlithed_button, current_score, highscore, file, now, dt, pc,
                   enemies, items, bullets, cars>>

InventorySelectSlot(index) ==
    /\ pc = "inventory"
    /\ player' = [player EXCEPT !.inventory = SelectSlot(player.inventory, index)]
    /\ log' = [op |-> "select_slot", index |-> index, before |-> player.inventory]
    /\ UNCHANGED <<state, highlithed_button, current_score, highscore, file, now, dt, pc,
                   enemies, items, bullets, cars, nextId>>

InventoryScroll(direction) ==
    /\ pc = "inventory"
    /\ player' = [player EXCEPT !.inventory = Scroll(player.inventory, direction)]
    /\ log' = [op |-> "scroll", direction |-> direction, before |-> player.inventory]
    /\ UNCHANGED <<state, highlithed_button, current_score, highscore, file, now, dt, pc,
                   enemies, items, bullets, cars, nextId>>

InventoryDrop ==
    /\ pc = "inventory"
    /\ player' = ItemDropperActor(player)
    /\ items' = ItemDropperGround(player, items)
    /\ log' = [op |-> "item_dropper", before |-> player.inventory]
    /\ UNCHANGED <<state, highlithed_button, current_score, highscore, file, now, dt, pc,
                   enemies, bullets, cars, nextId>>

InventoryNext ==
    \/ InventoryAddItems
    \/ \E index \in (0 - MaxIndex)..MaxIndex : InventorySelectSlot(index)
    \/ \E direction \in (0 - MaxIndex)..MaxIndex : InventoryScroll(direction)
    \/ InventoryDrop

SpecInventory == InventoryInit /\ [][InventoryNext]_vars

\* C4: after every add_items, select_slot (any integer index) and scroll
\* (any positive or negative delta), 0 <= selected_index < capacity, and the
\* capacity and the number of slots are what they were before the call.
C4_SelectedIndexInRange ==
    [][/\ 0 <= player'.inventory.selected_index
       /\ player'.inventory.selected_index < player'.inventory.capacity
       /\ player'.inventory.capacity = player.inventory.capacity
       /\ Len(player'.inventory.slots) = Len(player.inventory.slots)
       /\ Len(player'.inventory.slots) = player'.inventory.capacity]_vars

\* a scroll backwards by more than the capacity, from slot 0, has wrapped to
\* a slot other than 0
C4_Witness ==
    /\ log.op = "scroll"
    /\ log.direction < 0 - player.inventory.capacity
    /\ log.before.selected_index = 0
    /\ player.inventory.selected_index > 0

\* C18: after select_slot with an index outside [0, capacity) the inventory
\* is what it was before the call; with an index inside, selected_index is
\* that index and the capacity and every slot are what they were.
C18_SelectSlotChecksIndex ==
    log.op = "select_slot" =>
        IF 0 <= log.index /\ log.index < log.before.capacity
        THEN /\ player.inventory.selected_index = log.index
             /\ player.inventory.slots = log.before.slots
             /\ player.inventory.capacity = log.before.capacity
        ELSE player.inventory = log.before

\* select_slot has just been called with the capacity as index, on an
\* inventory whose selected slot is not slot 0 and holds an item
C18_Witness ==
    /\ log.op = "select_slot"
    /\ log.index = log.before.capacity
    /\ log.before.selected_index > 0
    /\ Selected(player.inventory).id # 0
    /\ player.inventory = log.before

\* C5: add_items never overwrites an occupied slot: every slot occupied
\* before the call holds the same item after it; a successful add changes
\* exactly one slot, which was empty, to the added item; an unsuccessful one
\* changes nothing; and no item is in two slots.
C5_AddNeverOverwrites ==
    /\ log.op = "add_items" =>
           LET old == log.before.slots
               new == player.inventory.slots
               changed == {i \in 1..Len(old) : new[i] # old[i]}
           IN  /\ \A i \in 1..Len(old) : old[i].id # 0 => new[i] = old[i]
               /\ log.result => /\ Cardinality(changed) = 1
                                /\ \A i \in changed : old[i].id = 0 /\ new[i] = log.item
               /\ ~log.result => changed = {}
    /\ \A i, j \in 1..Len(player.inventory.slots) :
           /\ i # j
           /\ player.inventory.slots[i].id # 0
           => player.inventory.slots[i].id # player.inventory.slots[j].id

\* an add with the selected slot occupied and a lower slot occupied too has
\* gone to the first empty slot, past both
C5_Witness ==
    /\ log.op = "add_items"
    /\ log.result
    /\ log.before.selected_index = 0
    /\ log.before.slots[1].id # 0
    /\ Len(log.before.slots) >= 3
    /\ log.before.slots[2].id # 0
    /\ player.inventory.slots[3] = log.item

(***************************************************************************)
(* The Projectile class alone (model.py 900-968): one projectile of any    *)
(* speed up to MaxBulletSpeed and any range up to MaxRange, moved by calls *)
(* of move(dt) with dt up to MaxTick until a call returns False, which is  *)
(* when move_projectiles stops calling it.  log records the last call, and *)
(* the sum of the steps asked for so far.                                  *)
(***************************************************************************)
MaxBulletSpeed == 3
MaxRange == 6
MaxTick == 2

ProjectileInit ==
    /\ state = "PLAYING"
    /\ highlithed_button = 0
    /\ current_score = 0
    /\ highscore = 0
    /\ file = [exists |-> FALSE, text |-> <<>>]
    /\ now = 0
    /\ dt = 0
    /\ pc = "projectile"
    /\ player = NewPlayer
    /\ enemies = <<>>
    /\ items = <<>>
    /\ \E speed \in 1..MaxBulletSpeed, max_distance \in 0..MaxRange, heading \in Headings :
           bullets = <<NewProjectile(1, PlayerSpawnX, PlayerSpawnY, heading[1], heading[2],
                                     1, speed, max_distance)>>
    /\ cars = <<>>
    /\ nextId = [NoIds EXCEPT !.bullet = 1]
    /\ log = [op |-> "init", result |-> TRUE, total |-> 0]

ProjectileStep(tick) ==
    /\ pc = "projectile"
    /\ log.result
    /\ bullets' = <<ProjectileMove(bullets[1], tick)>>
    /\ log' = [op |-> "move", result |-> ProjectileMoveResult(bullets[1], tick),
               total |-> log.total + bullets[1].speed * tick,
               before |-> log.total]
    /\ dt' = tick
    /\ UNCHANGED <<state, highlithed_button, current_score, highscore, file, now, pc,
                   player, enemies, items, cars, nextId>>

SpecProjectile == ProjectileInit /\ [][\E tick \in 1..MaxTick : ProjectileStep(tick)]_vars

\* C3: a call of Projectile.move returns False exactly when the distance
\* travelled, that call's step included, exceeds max_distance, and no call
\* is made after such a call: so False is returned on the first call after
\* which the cumulative distance exceeds max_distance, and True on every
\* earlier one, a call that brings the distance to max_distance exactly
\* included.
C3_ExpiresOnFirstExcess ==
    log.op = "move" =>
        /\ bullets[1].distance_travelled = log.total
        /\ log.result = ~(log.total > bullets[1].max_distance)
        /\ log.before <= bullets[1].max_distance

\* a call that brought the distance travelled to max_distance exactly, after
\* an earlier call, and returned True
C3_Witness ==
    /\ log.op = "move"
    /\ log.before > 0
    /\ log.total = bullets[1].max_distance
    /\ log.result

(***************************************************************************)
(* The Cars class alone (model.py 387-539): the vehicles spawn_cars puts   *)
(* on the map, each driven by up to MaxDrives calls of drive with any      *)
(* steering and throttle input and a dt of 1 or MaxTick.  log counts the   *)
(* calls.                                                                  *)
(***************************************************************************)
MaxDrives == 4

CarInit ==
    /\ state = "PLAYING"
    /\ highlithed_button = 0
    /\ current_score = 0
    /\ highscore = 0
    /\ file = [exists |-> FALSE, text |-> <<>>]
    /\ now = 0
    /\ dt = 0
    /\ pc = "car"
    /\ player = NewPlayer
    /\ enemies = <<>>
    /\ items = <<>>
    /\ bullets = <<>>
    /\ cars = SpawnCars(<<>>, 0)
    /\ nextId = [NoIds EXCEPT !.car = VehiclesAmount]
    /\ log = [op |-> "init", calls |-> 0]

CarDrive(i, direction_x, direction_y, tick) ==
    /\ pc = "car"
    /\ log.calls < MaxDrives
    /\ cars' = [cars EXCEPT ![i] = Drive(cars[i], direction_x, direction_y, tick)]
    /\ log' = [op |-> "drive", calls |-> log.calls + 1, car |-> i,
               direction_x |-> direction_x, direction_y |-> direction_y,
               before |-> cars[i]]
    /\ dt' = tick
    /\ UNCHANGED <<state, highlithed_button, current_score, highscore, file, now, pc,
                   player, enemies, items, bullets, nextId>>

CarNext ==
    \E i \in 1..Len(cars), direction_x \in {0 - 1, 0, 1}, direction_y \in {0 - 1, 0, 1},
       tick \in {1, MaxTick} :
        CarDrive(i, direction_x, direction_y, tick)

SpecCar == CarInit /\ [][CarNext]_vars

\* C7: for every vehicle, |current_speed| <= max_speed in every reachable
\* state.
C7_SpeedWithinMaxSpeed ==
    \A i \in 1..Len(cars) : Abs(cars[i].current_speed) <= cars[i].max_speed

(***************************************************************************)
(* Properties of the whole game (Spec).                                    *)
(***************************************************************************)
\* C1: the step that ends a frame of _update_logic (spawn_enemies,
\* replace_dead_enemies, spawn_cars) leaves exactly enemy.limit enemies, live
\* and fading together, and no enemy whose fade time had elapsed is among
\* them any more.
C1_PopulationRestored ==
    [][pc = "maintain" =>
          /\ Len(enemies') = EnemyLimit
          /\ \A j \in 1..Len(enemies) :
                 Faded(enemies[j], now) => enemies[j].id \notin Ids(enemies')]_vars

\* a frame has ended with a faded enemy replaced: an enemy made after the
\* start of the run is in the full population
C1_Witness ==
    /\ pc = "events"
    /\ state = "PLAYING"
    /\ Len(enemies) = EnemyLimit
    /\ \E j \in 1..Len(enemies) : enemies[j].id > EnemyLimit /\ enemies[j].hp > 0

\* C2: in move_projectiles no projectile hits twice, a projectile that hit
\* is no longer on the map, and only enemies that were hit change hp; a
\* lone projectile whose box, once moved, overlaps live enemies takes its
\* damage from the first of them in list order, leaves every other enemy's
\* hp as it was, and is removed.
C2_FirstEnemyOnly ==
    [][pc = "projectiles" =>
          LET hits == log'.hits
              m == ProjectileMove(bullets[1], dt)
              over == {i \in 1..Len(enemies) :
                          CollideRect(m.rect, enemies[i].rect) /\ enemies[i].hp > 0}
              first == CHOOSE i \in over : \A j \in over : i <= j
          IN  /\ \A a, b \in 1..Len(hits) : a # b => hits[a].bullet # hits[b].bullet
              /\ \A a \in 1..Len(hits) : hits[a].bullet \notin Ids(bullets')
              /\ Len(enemies') = Len(enemies)
              /\ \A i \in 1..Len(enemies) :
                     enemies'[i].hp # enemies[i].hp =>
                         \E a \in 1..Len(hits) : hits[a].enemy = enemies[i].id
              /\ (/\ Len(bullets) = 1
                  /\ m.distance_travelled <= m.max_distance
                  /\ over # {})
                 => /\ enemies'[first].hp = enemies[first].hp - m.damage
                    /\ \A i \in 1..Len(enemies) :
                           i # first => enemies'[i].hp = enemies[i].hp
                    /\ bullets' = <<>>]_vars

\* move_projectiles has just found a projectile whose box overlapped two live
\* enemies: the first is damaged, the second has its full hp
C2_Witness ==
    /\ pc = "maintain"
    /\ \E a \in 1..Len(log.hits), i, j \in 1..Len(enemies) :
           /\ i < j
           /\ enemies[i].id = log.hits[a].enemy
           /\ enemies[i].hp < EnemyHp
           /\ CollideRect(log.hits[a].rect, enemies[j].rect)
           /\ enemies[j].hp = EnemyHp

C14_RemovedOnlyWhenFaded ==
    [][~(state # "PLAYING" /\ state' = "PLAYING") =>
          \A i \in 1..Len(enemies) :
              /\ enemies[i].id \notin Ids(enemies') =>
                     /\ pc = "maintain"
                     /\ enemies[i].hp <= 0
                     /\ now - enemies[i].death_time >= FadeTime
              /\ (pc = "maintain" /\ enemies[i].hp <= 0
                      /\ now - enemies[i].death_time >= FadeTime) =>
                     /\ enemies[i].id \notin Ids(enemies')
                     /\ Len(enemies') = EnemyLimit
                     /\ \E j \in 1..Len(enemies') : enemies'[j].id \notin Ids(enemies)
      ]_vars

\* a dead enemy stayed through the end of the frame of its death and was
\* replaced at the end of the next one, while the enemy that lived stayed
C14_Witness ==
    /\ pc = "events"
    /\ state = "PLAYING"
    /\ now >= FadeTime + 2
    /\ \E i, j \in 1..Len(enemies) :
           /\ enemies[i].id <= EnemyLimit /\ enemies[i].hp > 0
           /\ enemies[j].id > EnemyLimit /\ enemies[j].hp > 0
    /\ \A j \in 1..Len(enemies) : enemies[j].hp > 0

\* C6: every item instance is in at most one place: counted over the ground
\* list, the slots of the player's inventory and the slots of every enemy's
\* inventory, no item occurs twice.
C6_ItemInOnePlace ==
    \A id \in 1..nextId.item :
        Cardinality({g \in 1..Len(items) : items[g].id = id})
        + Cardinality({i \in 1..Len(player.inventory.slots) :
                          player.inventory.slots[i].id = id})
        + Cardinality({ei \in (1..Len(enemies)) \X (1..Capacity) :
                          enemies[ei[1]].inventory.slots[ei[2]].id = id})
        <= 1

\* the player holds two items, one of them the weapon an enemy dropped when
\* it died
C6_Witness ==
    /\ \E i \in 1..Len(player.inventory.slots) :
           player.inventory.slots[i].id \in 1..EnemyLimit
    /\ \A i \in 1..Len(player.inventory.slots) : player.inventory.slots[i].id # 0
    /\ \E j \in 1..Len(enemies) : enemies[j].hp <= 0

\* C24: the lifecycle check of a frame sees what the frame did: when a frame
\* is over (the next events are awaited), a run whose player has hp <= 0 is
\* no longer PLAYING, and a run that is over has a high score that is at
\* least its score.
C24_LifecycleCheckEndsFrame ==
    pc = "events" =>
        /\ (state = "PLAYING" => player.hp > 0)
        /\ (state = "GAME OVER" => highscore >= current_score)

\* C35: a projectile whose move returns False in move_projectiles is removed
\* with no collision test: it is recorded in no hit, whatever its box
\* overlaps where it ends, and a step in which no projectile is left to hit
\* changes no enemy, no ground item and not the score.
C35_ExpiredHitsNothing ==
    [][pc = "projectiles" =>
          /\ \A i \in 1..Len(bullets) :
                 ~ProjectileMoveResult(bullets[i], dt) =>
                     /\ bullets[i].id \notin Ids(bullets')
                     /\ \A h \in 1..Len(log'.hits) : log'.hits[h].bullet # bullets[i].id
                     /\ \E x \in 1..Len(log'.expired) : log'.expired[x].bullet = bullets[i].id
          /\ (\A i \in 1..Len(bullets) : ~ProjectileMoveResult(bullets[i], dt)) =>
                 /\ enemies' = enemies
                 /\ items' = items
                 /\ current_score' = current_score
      ]_vars

\* a projectile has expired where its box overlaps a live enemy, which has
\* lost nothing
C35_Witness ==
    /\ pc = "maintain"
    /\ log.hits = <<>>
    /\ \E x \in 1..Len(log.expired), j \in 1..Len(enemies) :
           /\ enemies[j].hp = EnemyHp
           /\ CollideRect(log.expired[x].rect, enemies[j].rect)

\* C37: whenever the state is GAME OVER, highscore >= current_score.
C37_BestScoreCoversFinalScore ==
    state = "GAME OVER" => highscore >= current_score

\* C9: a frame update that runs in state PLAYING with the player's hp <= 0
\* sets the state to GAME OVER; at that step, if current_score > highscore
\* the high score becomes current_score and the file then reads back as it,
\* otherwise the high score and the file are unchanged; and no other step
\* enters GAME OVER.
C9_GameOverOnDeath ==
    [][/\ (now' # now /\ state = "PLAYING" /\ player.hp <= 0) =>
              /\ state' = "GAME OVER"
              /\ current_score > highscore =>
                     /\ highscore' = current_score
                     /\ file'.exists
                     /\ LoadHighScore(file') = current_score
              /\ ~(current_score > highscore) =>
                     /\ highscore' = highscore
                     /\ file' = file
       /\ (state # "GAME OVER" /\ state' = "GAME OVER") =>
              /\ now' # now
              /\ state = "PLAYING"
              /\ player.hp <= 0]_vars

\* the game is over with a score above the loaded high score, now the high
\* score and in the file
C9_Witness ==
    /\ state = "GAME OVER"
    /\ player.hp <= 0
    /\ current_score > 0
    /\ highscore = current_score
    /\ file.exists
    /\ LoadHighScore(file) = current_score

(***************************************************************************)
(* The whole game again, with the inputs that take the player to the       *)
(* vehicles: the keys idle, up or left, K_e, no mouse; every enemy spawns  *)
(* on the player's spawn point without a weapon and heads up when it       *)
(* wanders, and no item spawns.                                            *)
(***************************************************************************)
VehicleEnemyDraws == {<<PlayerSpawnX, PlayerSpawnY, 25>>}
VehicleItemDraws == {<<MapW, 1, 25>>}
VehicleKeyInputs == {<<0, 0, FALSE>>, <<0, 0 - 1, FALSE>>, <<0 - 1, 0, FALSE>>}
VehicleHeadings == {<<0, 0 - DirScale>>}

VehicleInit == InitWith({[exists |-> FALSE, text |-> <<>>]}, VehicleEnemyDraws, VehicleItemDraws)

VehicleNext ==
    \/ \E hover \in 0..Len(menu_options) : EventMenuConfirm(hover, VehicleEnemyDraws, VehicleItemDraws)
    \/ EventKeyE
    \/ \E tick \in Ticks : BeginFrame(tick)
    \/ \E hs \in [1..Len(enemies) -> VehicleHeadings] : StepEnemies(hs)
    \/ \E keys \in VehicleKeyInputs : StepMovement(keys[1], keys[2], keys[3])
    \/ StepUse(FALSE, <<0, 0>>)
    \/ StepProjectiles
    \/ StepMaintain(VehicleEnemyDraws)

SpecVehicle == VehicleInit /\ [][VehicleNext]_vars

\* C8: for the player and every enemy, the origin of the collision box is
\* floor(position) on both axes, in every reachable state (a position counts
\* 1/SubPix pixels, and \div rounds down).
C8_BoxIsPositionRoundedDown ==
    /\ player.rect.x = player.position_x \div SubPix
    /\ player.rect.y = player.position_y \div SubPix
    /\ \A j \in 1..Len(enemies) :
           /\ enemies[j].rect.x = enemies[j].position_x \div SubPix
           /\ enemies[j].rect.y = enemies[j].position_y \div SubPix

\* C10: the step that confirms the start-game action in START or GAME OVER
\* (reset_game) sets the state to PLAYING and leaves the score 0, the player
\* with full hp, position and box at the spawn location, an empty inventory,
\* visible and in no vehicle, no projectile, and fresh populations: enemy.limit
\* enemies with full hp, the vehicles of spawn_cars at rest, and only unused
\* items on the ground.
C10_ResetRestoresStart ==
    [][(state \in {"START", "GAME OVER"} /\ state' = "PLAYING") =>
          /\ current_score' = 0
          /\ player'.hp = PlayerHp
          /\ player'.position_x = ToFloat(PlayerSpawnX)
          /\ player'.position_y = ToFloat(PlayerSpawnY)
          /\ player'.rect = Rect(PlayerSpawnX, PlayerSpawnY, PlayerW, PlayerH)
          /\ player'.inventory = Inventory(Capacity)
          /\ player'.visible
          /\ player'.current_vehicle = 0
          /\ bullets' = <<>>
          /\ Len(enemies') = EnemyLimit
          /\ \A j \in 1..Len(enemies') :
                 enemies'[j].hp = EnemyHp /\ enemies'[j].death_time = 0
          /\ Len(cars') = VehiclesAmount
          /\ \A j \in 1..Len(cars') :
                 /\ cars'[j].current_speed = 0
                 /\ cars'[j].angle = 0
                 /\ cars'[j].rect.x = FirstSpawnX * j
                 /\ cars'[j].rect.y = FirstSpawnY
          /\ Len(items') <= ItemLimit
          /\ \A j \in 1..Len(items') : items'[j].last_use_time = 0]_vars

(***************************************************************************)
(* The whole game again, with the inputs of the fire path: the mouse       *)
(* button and its aim, K_e and the wheel, the keys idle; a crowbar or a    *)
(* grenade lies on the player's spawn point, and every enemy spawns at the *)
(* right edge without a weapon and heads right when it wanders, out of     *)
(* reach of the player and of the projectiles.                             *)
(***************************************************************************)
MaxUseTime == 6

UseEnemyDraws == {<<MapW, 1, 25>>}
UseItemDraws == {<<PlayerSpawnX, PlayerSpawnY, 10>>, <<PlayerSpawnX, PlayerSpawnY, 95>>}
UseHeadings == {<<DirScale, 0>>}

UseInit == InitWith({[exists |-> FALSE, text |-> <<>>]}, UseEnemyDraws, UseItemDraws)

UseNext ==
    \/ \E hover \in 0..Len(menu_options) : EventMenuConfirm(hover, UseEnemyDraws, UseItemDraws)
    \/ \E y \in {0 - 1, 1} : EventMouseWheel(y)
    \/ EventKeyE
    \/ \E tick \in Ticks : Frame(tick, MaxUseTime)
    \/ \E hs \in [1..Len(enemies) -> UseHeadings] : StepEnemies(hs)
    \/ StepMovement(0, 0, FALSE)
    \/ \E click \in BOOLEAN, aim \in Aims : StepUse(click, aim)
    \/ StepProjectiles
    \/ StepMaintain(UseEnemyDraws)

SpecUse == UseInit /\ [][UseNext]_vars

\* C11: a projectile is created only by the use step of a frame in which the
\* fire button is held, the selected slot holds an item and more time than
\* the item's use_speed has passed since its last_use_time; that step creates
\* exactly one projectile and stamps the item's last_use_time with the current
\* time, and no other step changes the last_use_time of an item the player
\* keeps in a slot, so two consecutive shots of one item are more than
\* use_speed apart and a frame creates at most one projectile.
C11_FireNeedsInputItemAndCooldown ==
    [][LET created == {j \in 1..Len(bullets') : bullets'[j].id \notin Ids(bullets)}
           item == Selected(player.inventory)
           restamped == {i \in 1..Len(player.inventory.slots) :
                            /\ player.inventory.slots[i].id # 0
                            /\ player'.inventory.slots[i].id = player.inventory.slots[i].id
                            /\ player'.inventory.slots[i].last_use_time
                                   # player.inventory.slots[i].last_use_time}
       IN  /\ created # {} =>
                  /\ pc = "use"
                  /\ log'.click
                  /\ item.id # 0
                  /\ now - item.last_use_time > spawnable_weapons[item.kind].use_speed
                  /\ player'.inventory =
                         [player.inventory EXCEPT
                             !.slots[player.inventory.selected_index + 1].last_use_time = now]
                  /\ Cardinality(created) = 1
                  /\ Len(bullets') = Len(bullets) + 1
           /\ restamped # {} => created # {}
      ]_vars

\* the second shot of one item: the use step has just stamped it again
C11_Witness ==
    /\ pc = "projectiles"
    /\ log.click
    /\ Selected(player.inventory).id # 0
    /\ Selected(player.inventory).last_use_time = now
    /\ now >= 2 * (spawnable_weapons[Selected(player.inventory).kind].use_speed + 1)
    /\ nextId.bullet >= 2
    /\ \E j \in 1..Len(bullets) : bullets[j].id = nextId.bullet

(***************************************************************************)
(* The whole game again, with the inputs of the enemies' attacks: every    *)
(* enemy spawns on the player's spawn point or at the right edge, without  *)
(* a weapon, and heads left or right when it wanders; the keys are idle or *)
(* right; no item spawns, and no event but the menu's arrives.             *)
(***************************************************************************)
MaxAttackTime == 6

AttackEnemyDraws == {<<PlayerSpawnX, PlayerSpawnY, 25>>, <<MapW, 1, 25>>}
AttackItemDraws == {<<MapW, 1, 25>>}

AttackInit == InitWith({[exists |-> FALSE, text |-> <<>>]}, AttackEnemyDraws, AttackItemDraws)

AttackNext ==
    \/ \E hover \in 0..Len(menu_options) : EventMenuConfirm(hover, AttackEnemyDraws, AttackItemDraws)
    \/ \E tick \in Ticks : Frame(tick, MaxAttackTime)
    \/ \E hs \in [1..Len(enemies) -> Headings] : StepEnemies(hs)
    \/ \E keys \in KeyInputs : StepMovement(keys[1], keys[2], keys[3])
    \/ StepUse(FALSE, <<0, 0>>)
    \/ StepProjectiles
    \/ StepMaintain(AttackEnemyDraws)

SpecAttack == AttackInit /\ [][AttackNext]_vars

\* the damage of the enemies of es whose index is in attackers, from enemy i on
RECURSIVE DamageOf(_, _, _)
DamageOf(es, attackers, i) ==
    IF i > Len(es) THEN 0
    ELSE (IF i \in attackers THEN es[i].damage ELSE 0) + DamageOf(es, attackers, i + 1)

\* C12: the player's hp goes down only in the enemies' step; there, the
\* enemies that attack are exactly those that are alive, whose box after their
\* move overlaps the player's, and whose last_attack_time is more than
\* attack_speed before the current time; each of them takes exactly its damage
\* from the player's hp and has its last_attack_time set to the current time,
\* and no other enemy's last_attack_time changes.
C12_AttackNeedsLifeOverlapAndInterval ==
    [][LET attackers == {j \in 1..Len(enemies) :
                            /\ enemies[j].hp > 0
                            /\ CollideRect(enemies'[j].rect, player.rect)
                            /\ now - enemies[j].last_attack_time > AttackSpeed}
       IN  /\ player'.hp < player.hp => pc = "enemies"
           /\ pc = "enemies" =>
                  /\ Len(enemies') = Len(enemies)
                  /\ player'.hp = player.hp - DamageOf(enemies, attackers, 1)
                  /\ \A j \in 1..Len(enemies) :
                         enemies'[j].last_attack_time =
                             IF j \in attackers THEN now ELSE enemies[j].last_attack_time
      ]_vars

\* an enemy has attacked for the second time: the player has lost twice its
\* damage to it, the last time in this frame
C12_Witness ==
    /\ pc = "movement"
    /\ \E j \in 1..Len(enemies) :
           /\ enemies[j].last_attack_time = now
           /\ now >= 2 * (AttackSpeed + 1)
           /\ player.hp = PlayerHp - 2 * enemies[j].damage

(***************************************************************************)
(* The whole game again, with the inputs of a kill: a pistol or a crowbar  *)
(* lies on the player's spawn point; every enemy spawns there with a       *)
(* crowbar, or at the right edge without a weapon, and heads right when it *)
(* wanders; K_e and the mouse, the keys idle.                              *)
(***************************************************************************)
MaxKillTime == 4

KillEnemyDraws == {<<PlayerSpawnX, PlayerSpawnY, 10>>, <<MapW, 1, 25>>}
KillItemDraws == {<<PlayerSpawnX, PlayerSpawnY, 35>>, <<PlayerSpawnX, PlayerSpawnY, 10>>}

KillInit == InitWith({[exists |-> FALSE, text |-> <<>>]}, KillEnemyDraws, KillItemDraws)

KillNext ==
    \/ \E hover \in 0..Len(menu_options) : EventMenuConfirm(hover, KillEnemyDraws, KillItemDraws)
    \/ EventKeyE
    \/ \E tick \in Ticks : Frame(tick, MaxKillTime)
    \/ \E hs \in [1..Len(enemies) -> UseHeadings] : StepEnemies(hs)
    \/ StepMovement(0, 0, FALSE)
    \/ \E click \in BOOLEAN, aim \in Aims : StepUse(click, aim)
    \/ StepProjectiles
    \/ StepMaintain(KillEnemyDraws)

SpecKill == KillInit /\ [][KillNext]_vars

\* C15: outside reset_game the score changes only in move_projectiles; there,
\* with killed the enemies whose hp goes from > 0 to <= 0, the score rises by
\* points_given for each of them, each gets the current time as death_time and
\* loses the item of its selected slot, which is appended to the ground list
\* with the origin of the enemy's box as coordinates; every other enemy keeps
\* its death_time and its inventory, and the ground list gains nothing else,
\* so a hit that does not kill changes none of them.
C15_KillScoresStampsAndDrops ==
    [][~(state # "PLAYING" /\ state' = "PLAYING") =>
          /\ current_score' # current_score => pc = "projectiles"
          /\ pc = "projectiles" =>
                 LET killed == {i \in 1..Len(enemies) :
                                   enemies[i].hp > 0 /\ enemies'[i].hp <= 0}
                     armed == {i \in killed : Selected(enemies[i].inventory).id # 0}
                 IN  /\ current_score' = current_score + PointsGiven * Cardinality(killed)
                     /\ Len(items') = Len(items) + Cardinality(armed)
                     /\ SubSeq(items', 1, Len(items)) = items
                     /\ \A i \in 1..Len(enemies) :
                            IF i \in killed
                            THEN /\ enemies'[i].death_time = now
                                 /\ Selected(enemies'[i].inventory) = NoItem
                                 /\ enemies'[i].inventory.selected_index
                                        = enemies[i].inventory.selected_index
                                 /\ i \in armed =>
                                        \E k \in Len(items) + 1..Len(items') :
                                            items'[k] =
                                                [Selected(enemies[i].inventory) EXCEPT
                                                    !.coordinate_x = enemies[i].rect.x,
                                                    !.coordinate_y = enemies[i].rect.y]
                            ELSE /\ enemies'[i].death_time = enemies[i].death_time
                                 /\ enemies'[i].inventory = enemies[i].inventory
      ]_vars

\* the second hit of a pistol has just killed an enemy that the first had
\* left alive: the score, the death_time and the dropped crowbar are there
C15_Witness ==
    /\ pc = "maintain"
    /\ Selected(player.inventory).id # 0
    /\ spawnable_weapons[Selected(player.inventory).kind].damage < EnemyHp
    /\ current_score = PointsGiven
    /\ \E a \in 1..Len(log.hits), i \in 1..Len(enemies), k \in 1..Len(items) :
           /\ enemies[i].id = log.hits[a].enemy
           /\ enemies[i].hp <= 0
           /\ enemies[i].death_time = now
           /\ Selected(enemies[i].inventory) = NoItem
           /\ items[k].coordinate_x = enemies[i].rect.x
           /\ items[k].coordinate_y = enemies[i].rect.y

(***************************************************************************)
(* Player.item_picker and Player.item_dropper with the Inventory (model.py *)
(* 133-176, 1083-1117): a player at the spawn point with an inventory of   *)
(* any capacity up to MaxSlots, and a ground list of up to MaxGround items, *)
(* each on the player's spawn point or at the right edge; add_items of     *)
(* fresh items, select_slot, item_picker and item_dropper.  log records    *)
(* the last call: what add_items returned, the index and the identity of   *)
(* the ground item item_picker took (0 for none), the identity of the item *)
(* item_dropper dropped, and for item_picker the item that the call just   *)
(* before it dropped.                                                      *)
(***************************************************************************)
MaxGround == 2
MaxSlots == 2

\* where the items of the ground list lie
GroundSpots == {<<PlayerSpawnX, PlayerSpawnY>>, <<MapW - ItemSize, 1>>}

\* the ground lists of n items, identities 1..n
GroundLists(n) ==
    {[i \in 1..n |-> Weapon(i, spots[i][1], spots[i][2], 1)] : spots \in [1..n -> GroundSpots]}

GroundInit ==
    /\ state = "PLAYING"
    /\ highlithed_button = 0
    /\ current_score = 0
    /\ highscore = 0
    /\ file = [exists |-> FALSE, text |-> <<>>]
    /\ now = 0
    /\ dt = 0
    /\ pc = "ground"
    /\ \E capacity \in 1..MaxSlots :
           player = [NewPlayer EXCEPT !.inventory = Inventory(capacity)]
    /\ enemies = <<>>
    /\ \E n \in 0..MaxGround : /\ items \in GroundLists(n)
                               /\ nextId = [NoIds EXCEPT !.item = n]
    /\ bullets = <<>>
    /\ cars = <<>>
    /\ log = [op |-> "init"]

GroundAddItems ==
    /\ pc = "ground"
    /\ nextId.item < MaxGround + 1
    /\ LET item == Weapon(nextId.item + 1, 0, 0, 1)
       IN  /\ player' = [player EXCEPT !.inventory = AddItems(player.inventory, item)]
           /\ log' = [op |-> "add_items", item |-> item,
                      result |-> AddItemsOk(player.inventory, item)]
    /\ nextId' = [nextId EXCEPT !.item = @ + 1]
    /\ UNCHANGED <<state, highlithed_button, current_score, highscore, file, now, dt, pc,
                   enemies, items, bullets, cars>>

GroundSelectSlot(index) ==
    /\ pc = "ground"
    /\ player' = [player EXCEPT !.inventory = SelectSlot(player.inventory, index)]
    /\ log' = [op |-> "select_slot", index |-> index]
    /\ UNCHANGED <<state, highlithed_button, current_score, highscore, file, now, dt, pc,
                   enemies, items, bullets, cars, nextId>>

GroundPick ==
    /\ pc = "ground"
    /\ player' = ItemPickerActor(player, items)
    /\ items' = ItemPickerGround(player, items)
    /\ log' = [op |-> "item_picker",
               index |-> PickIndex(player, items),
               item |-> IF PickIndex(player, items) = 0 THEN 0
                        ELSE items[PickIndex(player, items)].id,
               dropped |-> IF log.op = "item_dropper" THEN log.dropped ELSE 0]
    /\ UNCHANGED <<state, highlithed_button, current_score, highscore, file, now, dt, pc,
                   enemies, bullets, cars, nextId>>

GroundDrop ==
    /\ pc = "ground"
    /\ player' = ItemDropperActor(player)
    /\ items' = ItemDropperGround(player, items)
    /\ log' = [op |-> "item_dropper", dropped |-> Selected(player.inventory).id]
    /\ UNCHANGED <<state, highlithed_button, current_score, highscore, file, now, dt, pc,
                   enemies, bullets, cars, nextId>>

GroundNext ==
    \/ GroundAddItems
    \/ \E index \in (0 - 1)..MaxSlots : GroundSelectSlot(index)
    \/ GroundPick
    \/ GroundDrop

SpecGround == GroundInit /\ [][GroundNext]_vars

C17_FullInventoryRefuses ==
    [][(\A i \in 1..player.inventory.capacity : player.inventory.slots[i].id # 0) =>
          /\ log'.op = "add_items" => ~log'.result /\ player' = player /\ items' = items
          /\ log'.op = "item_picker" => player' = player /\ items' = items
      ]_vars

\* item_picker has just been called with every slot occupied and an item of
\* the ground list under the player: the item is still there
C17_Witness ==
    /\ log.op = "item_picker"
    /\ log.index = 0
    /\ \A i \in 1..player.inventory.capacity : player.inventory.slots[i].id # 0
    /\ \E k \in 1..Len(items) :
           CollideRect(player.rect, Rect(items[k].coordinate_x, items[k].coordinate_y,
                                         ItemSize, ItemSize))

\* the effect of item_dropper that C19 states: with an item in the selected
\* slot, the item gets the origin of the player's box as coordinates, is
\* appended to the ground list and leaves its slot, the other slots and
\* selected_index staying as they are; with the selected slot empty nothing
\* changes
DropEffect ==
    log'.op = "item_dropper" =>
        IF Selected(player.inventory).id # 0
        THEN /\ items' = Append(items, [Selected(player.inventory) EXCEPT
                                            !.coordinate_x = player.rect.x,
                                            !.coordinate_y = player.rect.y])
             /\ player' = [player EXCEPT
                              !.inventory.slots[player.inventory.selected_index + 1] = NoItem]
        ELSE /\ items' = items
             /\ player' = player

\* C19 as stated: item_dropper has the effect above, and an item_picker
\* called right after an item_dropper that dropped an item returns that item
\* to the selected slot it came from.
C19_DropThenPickupReturnsItem ==
    [][/\ DropEffect
       /\ (log'.op = "item_picker" /\ log'.dropped # 0) =>
              /\ Selected(player'.inventory).id = log'.dropped
              /\ log'.dropped \notin Ids(items')
      ]_vars

\* C19, amended: item_dropper has the effect above, and an item_picker called
\* right after an item_dropper that dropped an item returns that item to the
\* selected slot it came from if no other item of the ground list overlaps
\* the player's box; if one does, it takes the first of them in list order
\* and the dropped item stays on the ground.
C19_DropThenPickupReturnsItemIfAlone ==
    [][/\ DropEffect
       /\ (log'.op = "item_picker" /\ log'.dropped # 0) =>
              LET others == {k \in 1..(Len(items) - 1) :
                                CollideRect(player.rect,
                                            Rect(items[k].coordinate_x, items[k].coordinate_y,
                                                 ItemSize, ItemSize))}
              IN  /\ items[Len(items)].id = log'.dropped
                  /\ player'.inventory.selected_index = player.inventory.selected_index
                  /\ IF others = {}
                     THEN /\ Selected(player'.inventory) = items[Len(items)]
                          /\ items' = SubSeq(items, 1, Len(items) - 1)
                     ELSE /\ Selected(player'.inventory)
                                 = items[CHOOSE a \in others : \A b \in others : a <= b]
                          /\ log'.dropped \in Ids(items')
      ]_vars

\* an item dropped from slot 1 with another item lying out of reach has just
\* been picked up again into slot 1
C19_Witness ==
    /\ log.op = "item_picker"
    /\ log.dropped # 0
    /\ log.item = log.dropped
    /\ player.inventory.selected_index = 1
    /\ Selected(player.inventory).id = log.dropped
    /\ Selected(player.inventory).coordinate_x = player.rect.x
    /\ Len(items) >= 1

\* C20: a K_e key in PLAYING, with no item on the ground: if the player has a
\* vehicle, it only leaves it (visible, no current_vehicle; box, position and
\* vehicles as they were, so no vehicle is entered); otherwise the first
\* vehicle in list order whose box overlaps the player's becomes the
\* current_vehicle, the player's box is centred on the vehicle's and visible
\* is the negation of the vehicle's hiding; if no vehicle overlaps, nothing
\* changes.
C20_InteractExitsOrEntersFirst ==
    [][(pc = "events" /\ pc' = "events" /\ state = "PLAYING" /\ state' = "PLAYING"
            /\ items = <<>>) =>
          LET over == {k \in 1..Len(cars) : CollideRect(player.rect, cars[k].rect)}
              k == CHOOSE a \in over : \A b \in over : a <= b
          IN  IF player.current_vehicle # 0
              THEN /\ player' = [player EXCEPT !.visible = TRUE, !.current_vehicle = 0]
                   /\ cars' = cars
              ELSE IF over = {}
              THEN player' = player /\ cars' = cars
              ELSE /\ player'.current_vehicle = cars[k].id
                   /\ player'.visible = ~cars[k].hiding
                   /\ player'.rect.w = player.rect.w /\ player'.rect.h = player.rect.h
                   /\ CenterX(player'.rect) = CenterX(cars[k].rect)
                   /\ CenterY(player'.rect) = CenterY(cars[k].rect)
                   /\ [player' EXCEPT !.current_vehicle = 0, !.visible = TRUE, !.rect = 0]
                          = [player EXCEPT !.current_vehicle = 0, !.visible = TRUE, !.rect = 0]
                   /\ \A j \in 1..Len(cars) :
                          /\ cars'[j].rect = cars[j].rect
                          /\ j # k => cars'[j] = cars[j]
      ]_vars

\* the player has entered the hiding car, which is not the first vehicle of
\* the list, and left it again on the spot: visible, without a vehicle, its
\* box still centred on the car's
C20_Witness ==
    /\ pc = "events"
    /\ state = "PLAYING"
    /\ player.current_vehicle = 0
    /\ player.visible
    /\ \E k \in 2..Len(cars) :
           /\ cars[k].hiding
           /\ ~CollideRect(player.rect, cars[1].rect)
           /\ CenterX(player.rect) = CenterX(cars[k].rect)
           /\ CenterY(player.rect) = CenterY(cars[k].rect)

\* C21: in the movement step of a frame in which the player has a vehicle,
\* the vehicle is driven with the keys of the frame and no other vehicle
\* changes; afterwards the centre of the player's box is the centre of the
\* vehicle's box and the player's position is that centre, whatever the keys,
\* and nothing else of the player has changed.
C21_VehicleDrivenPlayerSynced ==
    [][(pc = "movement" /\ player.current_vehicle # 0) =>
          /\ \E k \in 1..Len(cars) :
                 /\ cars[k].id = player.current_vehicle
                 /\ \E keys \in VehicleKeyInputs :
                        cars' = [cars EXCEPT ![k] = Drive(cars[k], keys[1], keys[2], dt)]
                 /\ CenterX(player'.rect) = CenterX(cars'[k].rect)
                 /\ CenterY(player'.rect) = CenterY(cars'[k].rect)
          /\ player'.rect.w = player.rect.w /\ player'.rect.h = player.rect.h
          /\ player'.position_x = ToFloat(CenterX(player'.rect))
          /\ player'.position_y = ToFloat(CenterY(player'.rect))
          /\ [player' EXCEPT !.rect = 0, !.position_x = 0, !.position_y = 0]
                 = [player EXCEPT !.rect = 0, !.position_x = 0, !.position_y = 0]
      ]_vars

\* the player's vehicle has been driven and has moved, and the player is on
\* its centre
C21_Witness ==
    /\ pc = "use"
    /\ player.current_vehicle # 0
    /\ \E k \in 1..Len(cars) :
           /\ cars[k].id = player.current_vehicle
           /\ cars[k].current_speed # 0
           /\ cars[k].position_x # ToFloat(cars[k].rect.x)
           /\ CenterX(player.rect) = CenterX(cars[k].rect)
           /\ CenterY(player.rect) = CenterY(cars[k].rect)

\* C22: the attacks and the hits of a frame are decided on the boxes that the
\* movement of the frame leaves: every enemy that has attacked in a frame
\* (its last_attack_time is the frame's time) has its box on the player's box
\* as the player's movement of that frame leaves it.
C22_AttacksAfterAllMovement ==
    [][pc = "movement" =>
          \A j \in 1..Len(enemies) :
              (enemies[j].hp > 0 /\ now > 0 /\ enemies[j].last_attack_time = now) =>
                  CollideRect(enemies[j].rect, player'.rect)
      ]_vars

(***************************************************************************)
(* The end of a frame of _update_logic (lines 458-464) under any fade_time *)
(* up to MaxFade: move_projectiles, then spawn_enemies, replace_dead_enemies *)
(* and spawn_cars.  The enemies spawn on the player's spawn point, with a  *)
(* crowbar or without a weapon; one or two projectiles of damage 1 or 2,   *)
(* new or at the end of their range, lie at the centre of the player's box *)
(* at first, and a new one in every later frame.  log.fade_time is the     *)
(* config's enemy.fade_time, log.hits the hits of the frame.               *)
(***************************************************************************)
MaxFade == 1
MaxFadeFrames == 3

FadeEnemyDraws == {<<PlayerSpawnX, PlayerSpawnY, 25>>, <<PlayerSpawnX, PlayerSpawnY, 10>>}
FadeDamages == {1, EnemyHp}

\* replace_dead_enemies under a config whose enemy.fade_time is fade_time: the
\* time enters it only through time - death_time >= fade_time
ReplaceDeadEnemiesAfter(es, ds, time, fade_time) ==
    ReplaceDeadEnemies(es, ds, time + FadeTime - fade_time)

\* how many draws lines 462-463 take under that config
DrawsNeededAfter(es, time, fade_time) ==
    (IF Len(es) < EnemyLimit THEN EnemyLimit - Len(es) ELSE 0)
    + Cardinality({j \in 1..Len(es) : Faded(es[j], time + FadeTime - fade_time)})

\* the projectile of a frame
FadeProjectile(id, damage) ==
    NewProjectile(id, CenterX(NewPlayer.rect), CenterY(NewPlayer.rect), 0, 0,
                  damage, BulletSpeed, 2 * BulletSpeed)

FadeInit ==
    /\ state = "PLAYING"
    /\ highlithed_button = 0
    /\ current_score = 0
    /\ highscore = 0
    /\ file = [exists |-> FALSE, text |-> <<>>]
    /\ now = 1
    /\ dt = 1
    /\ pc = "projectiles"
    /\ player = NewPlayer
    /\ \E ds \in DrawSets(EnemyLimit, NoIds, FadeEnemyDraws) : enemies = SpawnEnemies(<<>>, ds).list
    /\ items = <<>>
    /\ \E n \in 1..2, damage \in FadeDamages :
           \E travelled \in [1..n -> {0, 2 * BulletSpeed}] :
               bullets = [i \in 1..n |-> [FadeProjectile(i, damage)
                                              EXCEPT !.distance_travelled = travelled[i]]]
    /\ cars = <<>>
    /\ nextId = [NoIds EXCEPT !.enemy = EnemyLimit, !.item = EnemyLimit, !.bullet = Len(bullets)]
    /\ \E fade_time \in 0..MaxFade : log = NoLog @@ [fade_time |-> fade_time]

\* lines 462-464
FadeMaintain ==
    /\ pc = "maintain"
    /\ \E ds \in DrawSets(DrawsNeededAfter(enemies, now, log.fade_time), nextId, FadeEnemyDraws) :
           enemies' = ReplaceDeadEnemiesAfter(SpawnEnemies(enemies, ds).list,
                                              SpawnEnemies(enemies, ds).rest,
                                              now, log.fade_time).list
    /\ cars' = SpawnCars(cars, nextId.car)
    /\ nextId' = [nextId EXCEPT !.enemy = @ + DrawsNeededAfter(enemies, now, log.fade_time),
                                !.item = @ + DrawsNeededAfter(enemies, now, log.fade_time),
                                !.car = @ + VehiclesAmount - Len(cars)]
    /\ pc' = "frame"
    /\ UNCHANGED <<state, highlithed_button, current_score, highscore, file,
                   now, dt, player, items, bullets, log>>

\* the next frame, to line 457: a projectile has been fired
FadeFrame(damage) ==
    /\ pc = "frame"
    /\ now < MaxFadeFrames
    /\ now' = now + 1
    /\ bullets' = Append(bullets, FadeProjectile(nextId.bullet + 1, damage))
    /\ nextId' = [nextId EXCEPT !.bullet = @ + 1]
    /\ log' = [log EXCEPT !.hits = <<>>, !.expired = <<>>]
    /\ pc' = "projectiles"
    /\ UNCHANGED <<state, highlithed_button, current_score, highscore, file,
                   dt, player, enemies, items, cars>>

FadeNext ==
    \/ StepProjectiles
    \/ FadeMaintain
    \/ \E damage \in FadeDamages : FadeFrame(damage)

SpecFade == FadeInit /\ [][FadeNext]_vars

\* C23: the enemies' hp changes only in move_projectiles, whose step is
\* followed at once by the replacement pass of the same frame; that pass
\* removes every enemy whose hp is <= 0 and whose death_time is at least
\* fade_time old, the enemies killed in this very frame included when
\* fade_time is 0, keeps every other enemy and leaves enemy.limit enemies.
C23_ReplacementSeesDeathsOfFrame ==
    [][/\ (\E j \in 1..Len(enemies) : \E k \in 1..Len(enemies') :
               enemies'[k].id = enemies[j].id /\ enemies'[k].hp # enemies[j].hp)
           => pc = "projectiles" /\ pc' = "maintain" /\ now' = now
       /\ pc = "maintain" =>
              /\ Len(enemies') = EnemyLimit
              /\ \A j \in 1..Len(enemies) :
                     enemies[j].id \notin Ids(enemies')
                         <=> (enemies[j].hp <= 0
                                  /\ now - enemies[j].death_time >= log.fade_time)
      ]_vars

\* with fade_time 0, the enemy that a projectile has killed in this frame is
\* gone at the end of the frame and the population is full
C23_Witness ==
    /\ pc = "frame"
    /\ log.fade_time = 0
    /\ Len(enemies) = EnemyLimit
    /\ \E a \in 1..Len(log.hits) : log.hits[a].enemy \notin Ids(enemies)

(***************************************************************************)
(* Player.move alone (model.py 68-117), also Enemy's: an actor at the      *)
(* spawn point moved again and again with any direction in DirScale-ths on *)
(* both axes, either sprint flag and any dt up to MaxMoveTick.  log        *)
(* records the last call and on which axes a clamp fired.                  *)
(***************************************************************************)
MaxMoveTick == 2

MoveInit ==
    /\ state = "PLAYING"
    /\ highlithed_button = 0
    /\ current_score = 0
    /\ highscore = 0
    /\ file = [exists |-> FALSE, text |-> <<>>]
    /\ now = 0
    /\ dt = 0
    /\ pc = "move"
    /\ player = NewPlayer
    /\ enemies = <<>>
    /\ items = <<>>
    /\ bullets = <<>>
    /\ cars = <<>>
    /\ nextId = NoIds
    /\ log = [op |-> "init"]

MoveCall(direction_x, direction_y, sprint, tick) ==
    /\ pc = "move"
    /\ player' = Move(player, direction_x, direction_y, sprint, tick)
    /\ log' = [op |-> "move",
               fired_x |-> Clamps(ToInt(player.position_x
                                        + Change(direction_x,
                                                 player.speed + (IF sprint THEN player.sprint_bonus ELSE 0),
                                                 direction_x # 0 /\ direction_y # 0, tick)),
                                  player.rect.w, MapW),
               fired_y |-> Clamps(ToInt(player.position_y
                                        + Change(direction_y,
                                                 player.speed + (IF sprint THEN player.sprint_bonus ELSE 0),
                                                 direction_x # 0 /\ direction_y # 0, tick)),
                                  player.rect.h, MapH)]
    /\ UNCHANGED <<state, highlithed_button, current_score, highscore, file, now, dt, pc,
                   enemies, items, bullets, cars, nextId>>

SpecMove ==
    MoveInit /\ [][\E direction_x, direction_y \in (0 - DirScale)..DirScale :
                       \E sprint \in BOOLEAN, tick \in 1..MaxMoveTick :
                           MoveCall(direction_x, direction_y, sprint, tick)]_vars

\* C25: after move the box lies inside the map on its four sides; on an axis
\* where a clamp fired the position is the box coordinate, on the other the
\* box coordinate is the position truncated; and a move that displaces
\* nothing, which only clamps again, changes neither box nor position.
C25_MoveKeepsBoxInMap ==
    log.op = "move" =>
        /\ 0 <= player.rect.x /\ player.rect.x + player.rect.w <= MapW
        /\ 0 <= player.rect.y /\ player.rect.y + player.rect.h <= MapH
        /\ IF log.fired_x THEN player.position_x = player.rect.x * SubPix
           ELSE player.rect.x = ToInt(player.position_x)
        /\ IF log.fired_y THEN player.position_y = player.rect.y * SubPix
           ELSE player.rect.y = ToInt(player.position_y)
        /\ \A tick \in 1..MaxMoveTick : Move(player, 0, 0, FALSE, tick) = player

\* a move has just been clamped at the right and at the bottom of the map
C25_Witness ==
    /\ log.op = "move"
    /\ log.fired_x /\ log.fired_y
    /\ player.rect.x + player.rect.w = MapW
    /\ player.rect.y + player.rect.h = MapH

(***************************************************************************)
(* The managers' spawn operations alone (model.py 325-353, 567-592,        *)
(* 828-852): each is called on the collection as it stands, with every     *)
(* position random.randint can give at the edges of the map and rolls in   *)
(* and between the catalog's ranges; between calls an element is removed   *)
(* (replace_dead_enemies' remove, item_picker's remove) or the vehicles    *)
(* are cleared (reset_manager).  One manager is exercised in a behaviour,  *)
(* named by pc.  log records the call, the collection's size before it and *)
(* the draws it took.                                                      *)
(***************************************************************************)
MaxSpawnIds == 3
MaxSpawnItems == 2

\* random.randint(0, map_size[0]) and random.randint(0, map_size[1]) at both
\* ends, and random.random() in hundredths: in Crowbar's range, in the gap
\* after it, at the low and at the high end of Pistol's range
SpawnDraws == {<<x, (x * MapH) \div MapW, roll>> : x \in {0, MapW}, roll \in {10, 25, 30, 40}}

SpawnInit ==
    /\ state = "PLAYING"
    /\ highlithed_button = 0
    /\ current_score = 0
    /\ highscore = 0
    /\ file = [exists |-> FALSE, text |-> <<>>]
    /\ now = 0
    /\ dt = 0
    /\ pc \in {"spawn_enemies", "spawn_items", "spawn_cars"}
    /\ player = NewPlayer
    /\ enemies = <<>>
    /\ items = <<>>
    /\ bullets = <<>>
    /\ cars = <<>>
    /\ nextId = NoIds
    /\ log = [op |-> "init", before |-> 0, draws |-> <<>>]

SpawnCallEnemies ==
    /\ pc = "spawn_enemies"
    /\ Len(enemies) <= EnemyLimit
    /\ nextId.enemy + (EnemyLimit - Len(enemies)) <= MaxSpawnIds
    /\ \E ds \in DrawSets(EnemyLimit - Len(enemies), nextId, SpawnDraws) :
           /\ enemies' = SpawnEnemies(enemies, ds).list
           /\ nextId' = [nextId EXCEPT !.enemy = @ + Len(ds), !.item = @ + Len(ds)]
           /\ log' = [op |-> "spawn_enemies", before |-> Len(enemies), draws |-> ds]
    /\ UNCHANGED <<state, highlithed_button, current_score, highscore, file, now, dt, pc,
                   player, items, bullets, cars>>

SpawnCallItems ==
    /\ pc = "spawn_items"
    /\ Len(items) < MaxSpawnItems
    /\ nextId.item + ItemLimit <= MaxSpawnIds
    /\ \E ds \in DrawSets(ItemLimit, nextId, SpawnDraws) :
           /\ items' = SpawnItems(items, ds)
           /\ nextId' = [nextId EXCEPT !.item = @ + Len(ds)]
           /\ log' = [op |-> "spawn_items", before |-> Len(items), draws |-> ds]
    /\ UNCHANGED <<state, highlithed_button, current_score, highscore, file, now, dt, pc,
                   player, enemies, bullets, cars>>

SpawnCallCars ==
    /\ pc = "spawn_cars"
    /\ nextId.car + (VehiclesAmount - Len(cars)) <= MaxSpawnIds
    /\ cars' = SpawnCars(cars, nextId.car)
    /\ nextId' = [nextId EXCEPT !.car = @ + (VehiclesAmount - Len(cars))]
    /\ log' = [op |-> "spawn_cars", before |-> Len(cars), draws |-> <<>>]
    /\ UNCHANGED <<state, highlithed_button, current_score, highscore, file, now, dt, pc,
                   player, enemies, items, bullets>>

\* enemies_spawned.remove (model.py 371), items_spawned.remove (model.py 150)
\* and cars_on_map.clear (model.py 603)
SpawnRemove ==
    /\ \/ /\ enemies # <<>>
          /\ enemies' = Tail(enemies)
          /\ UNCHANGED <<items, cars>>
       \/ /\ items # <<>>
          /\ items' = Tail(items)
          /\ UNCHANGED <<enemies, cars>>
       \/ /\ cars # <<>>
          /\ cars' = <<>>
          /\ UNCHANGED <<enemies, items>>
    /\ log' = [op |-> "remove", before |-> 0, draws |-> <<>>]
    /\ UNCHANGED <<state, highlithed_button, current_score, highscore, file, now, dt, pc,
                   player, bullets, nextId>>

SpecSpawn ==
    SpawnInit /\ [][SpawnCallEnemies \/ SpawnCallItems \/ SpawnCallCars \/ SpawnRemove]_vars

\* C26: when spawn_enemies, spawn_items or spawn_cars returns on a collection
\* that was at or below its target, the collection has exactly the target's
\* size (enemy limit, item_limit, vehicles amount), whatever the rolls were;
\* on a collection at its target the call adds nothing.
C26_SpawnReachesTarget ==
    /\ log.op = "spawn_enemies" /\ log.before <= EnemyLimit => Len(enemies) = EnemyLimit
    /\ log.op = "spawn_items" /\ log.before <= ItemLimit => Len(items) = ItemLimit
    /\ log.op = "spawn_cars" /\ log.before <= VehiclesAmount => Len(cars) = VehiclesAmount

\* C27: every spawned enemy's box and every spawned ground item's box
\* (position plus fixed width and height) lies entirely inside the map.
C27_SpawnsInsideMap ==
    /\ \A j \in 1..Len(enemies) :
           /\ 0 <= enemies[j].rect.x /\ enemies[j].rect.x + enemies[j].rect.w <= MapW
           /\ 0 <= enemies[j].rect.y /\ enemies[j].rect.y + enemies[j].rect.h <= MapH
    /\ \A j \in 1..Len(items) :
           /\ 0 <= items[j].coordinate_x /\ items[j].coordinate_x + ItemSize <= MapW
           /\ 0 <= items[j].coordinate_y /\ items[j].coordinate_y + ItemSize <= MapH

\* C28: the weapon of a spawned enemy's slot 0, and the weapon spawned as a
\* ground item, is the first catalog entry whose range [low, high) holds the
\* roll; with the roll in no range the enemy is spawned with an empty
\* inventory (and no ground item is made).
C28_RollPicksFirstHalfOpenRange ==
    LET InRange(roll, k) == spawnable_weapons[k].low <= roll /\ roll < spawnable_weapons[k].high
        First(roll, k) == InRange(roll, k) /\ \A i \in 1..(k - 1) : ~InRange(roll, i)
        Gap(roll) == \A k \in 1..Len(spawnable_weapons) : ~InRange(roll, k)
    IN  /\ log.op = "spawn_enemies" =>
               /\ Len(enemies) = log.before + Len(log.draws)
               /\ \A j \in 1..Len(log.draws) :
                      LET e == enemies[log.before + j]
                          roll == log.draws[j].roll
                      IN  /\ \A s \in 2..Capacity : e.inventory.slots[s] = NoItem
                          /\ IF Gap(roll) THEN e.inventory.slots[1] = NoItem
                             ELSE /\ e.inventory.slots[1] # NoItem
                                  /\ First(roll, e.inventory.slots[1].kind)
        /\ log.op = "spawn_items" =>
               \A j \in 1..Len(log.draws) :
                   LET roll == log.draws[j].roll
                       made == SelectSeq(items, LAMBDA it : it.id = log.draws[j].wid)
                   IN  IF Gap(roll) THEN made = <<>>
                       ELSE Len(made) = 1 /\ First(roll, made[1].kind)

(***************************************************************************)
(* Config.load_high_score / save_high_score alone (settings.py 245-274):   *)
(* highscore.txt starts absent or with any text of up to MaxText           *)
(* characters (digits or Junk), a score up to MaxScore is saved, the file  *)
(* is loaded.  log.saved is the score of the last save, -1 before any.     *)
(***************************************************************************)
MaxText == 2
MaxScore == 12

ScoreInit ==
    /\ state = "START"
    /\ highlithed_button = 0
    /\ current_score = 0
    /\ highscore = 0
    /\ file \in {[exists |-> FALSE, text |-> <<>>]}
                \cup {[exists |-> TRUE, text |-> t] :
                         t \in UNION {[1..n -> 0..Junk] : n \in 0..MaxText}}
    /\ now = 0
    /\ dt = 0
    /\ pc = "score"
    /\ player = NewPlayer
    /\ enemies = <<>>
    /\ items = <<>>
    /\ bullets = <<>>
    /\ cars = <<>>
    /\ nextId = NoIds
    /\ log = [op |-> "init", saved |-> 0 - 1]

ScoreSave(score) ==
    /\ pc = "score"
    /\ highscore' = score
    /\ file' = SaveHighScore(score)
    /\ log' = [op |-> "save", saved |-> score]
    /\ UNCHANGED <<state, highlithed_button, current_score, now, dt, pc, player, enemies,
                   items, bullets, cars, nextId>>

ScoreLoad ==
    /\ pc = "score"
    /\ highscore' = LoadHighScore(file)
    /\ log' = [log EXCEPT !.op = "load"]
    /\ UNCHANGED <<state, highlithed_button, current_score, file, now, dt, pc, player,
                   enemies, items, bullets, cars, nextId>>

SpecScore == ScoreInit /\ [][ScoreLoad \/ \E score \in 0..MaxScore : ScoreSave(score)]_vars

\* C29: a load after a save of N gives N; a load with no save before it and
\* no file, or a file whose text is no number, gives 0.
C29_HighScoreRoundTrips ==
    log.op = "load" =>
        /\ log.saved >= 0 => highscore = log.saved
        /\ (/\ log.saved < 0
            /\ \/ ~file.exists
               \/ file.text = <<>>
               \/ \E j \in 1..Len(file.text) : file.text[j] = Junk) => highscore = 0

\* a score of two different digits has been saved and loaded
C29_Witness ==
    /\ log.op = "load"
    /\ log.saved = MaxScore
    /\ highscore = MaxScore
    /\ Len(file.text) = 2 /\ file.text[1] # file.text[2]

\* C38: in every reachable state the player's visible flag is false only
\* while the player possesses a vehicle whose hiding flag is true; with no
\* vehicle the player is visible, also after a restart that followed a game
\* over inside a hiding vehicle.
C38_HiddenOnlyInHidingVehicle ==
    ~player.visible =>
        \E j \in 1..Len(cars) :
            cars[j].id = player.current_vehicle /\ cars[j].hiding

\* C30: in every reachable state the player's current_vehicle is None or a
\* vehicle of cars_on_map, also after reset_game has cleared the vehicles
\* and spawned new ones.
C30_VehicleReferenceNeverDangles ==
    \/ player.current_vehicle = 0
    \/ \E j \in 1..Len(cars) : cars[j].id = player.current_vehicle

\* the game has been reset with the player inside the hiding vehicle: the
\* vehicles are new ones, the player is still not visible and has no vehicle
C30_Witness ==
    /\ state = "PLAYING"
    /\ cars # <<>>
    /\ \A j \in 1..Len(cars) : cars[j].id > VehiclesAmount
    /\ ~player.visible
    /\ player.current_vehicle = 0

\* C31 as stated: drive runs acceleration, then kinematics, then the clamp:
\* the displacement and the heading change of a call that no clamp altered
\* use the current_speed that call's throttle or friction has just given.
C31_DisplacementUsesNewSpeed ==
    log.op = "drive" =>
        LET b == log.before
            c == cars[log.car]
            s == Acceleration(b, log.direction_y, dt).current_speed
            px == b.position_x + s * Cos(b.angle) * dt
            py == b.position_y + s * Sin(b.angle) * dt
        IN  (~Clamps(ToInt(px), b.rect.w, MapW) /\ ~Clamps(ToInt(py), b.rect.h, MapH)) =>
                /\ c.position_x = px /\ c.position_y = py
                /\ c.current_speed = s
                /\ c.angle = IF Abs(s) > MinTurnSpeed
                             THEN b.angle + log.direction_x * b.rotation_speed * dt
                             ELSE b.angle

\* C31 amended: drive runs kinematics, then acceleration, then the clamp: the
\* displacement and the heading change of a call that no clamp altered use
\* the current_speed the vehicle had when the call began, and the speed the
\* call leaves is that speed after the call's throttle or friction.
C31_DisplacementUsesOldSpeed ==
    log.op = "drive" =>
        LET b == log.before
            c == cars[log.car]
            px == b.position_x + b.current_speed * Cos(b.angle) * dt
            py == b.position_y + b.current_speed * Sin(b.angle) * dt
        IN  (~Clamps(ToInt(px), b.rect.w, MapW) /\ ~Clamps(ToInt(py), b.rect.h, MapH)) =>
                /\ c.position_x = px /\ c.position_y = py
                /\ c.current_speed = Acceleration(b, log.direction_y, dt).current_speed
                /\ c.angle = IF Abs(b.current_speed) > MinTurnSpeed
                             THEN b.angle + log.direction_x * b.rotation_speed * dt
                             ELSE b.angle

\* a call has moved a vehicle by the speed it had and has changed that speed
C31_Witness ==
    /\ log.op = "drive"
    /\ log.before.current_speed # 0
    /\ cars[log.car].current_speed # log.before.current_speed
    /\ cars[log.car].current_speed # 0
    /\ cars[log.car].position_x
           = log.before.position_x + log.before.current_speed * Cos(log.before.angle) * dt
    /\ cars[log.car].position_x # log.before.position_x

\* C32: a call with no throttle input moves current_speed toward 0 and never
\* past it: a positive speed stays >= 0, a negative one <= 0, 0 stays 0,
\* and a speed that is not 0 afterwards has lost exactly friction * dt of
\* its size, so that repeated calls reach 0 and stay there; a speed of at
\* most friction * dt in size becomes 0.
C32_FrictionStopsAtZero ==
    (log.op = "drive" /\ log.direction_y = 0) =>
        LET s == log.before.current_speed
            t == cars[log.car].current_speed
        IN  /\ s > 0 => 0 <= t /\ t < s
            /\ s < 0 => s < t /\ t <= 0
            /\ s = 0 => t = 0
            /\ t # 0 => Abs(t) = Abs(s) - Friction * dt
            /\ Abs(s) <= Friction * dt => t = 0

\* friction has stopped a reversing vehicle whose speed was smaller than
\* friction * dt, away from the map's edges
C32_Witness ==
    /\ log.op = "drive" /\ log.direction_y = 0
    /\ log.before.current_speed < 0
    /\ Abs(log.before.current_speed) < Friction * dt
    /\ cars[log.car].current_speed = 0
    /\ cars[log.car].position_x # ToFloat(cars[log.car].rect.x)
    /\ cars[log.car].rect.y > 0

\* C33: when the clamp that ends a call of drive fires on an edge of the map,
\* the vehicle's box is inside the map afterwards, the position of each
\* clamped axis is the box coordinate and current_speed is 0; when it does
\* not fire, the vehicle is as kinematics and acceleration left it.
C33_ClampStopsVehicle ==
    log.op = "drive" =>
        LET m == Acceleration(Physics(log.before, log.direction_x, dt), log.direction_y, dt)
            c == cars[log.car]
            fired_x == m.rect.x < 0 \/ m.rect.x + m.rect.w > MapW
            fired_y == m.rect.y < 0 \/ m.rect.y + m.rect.h > MapH
        IN  IF fired_x \/ fired_y
            THEN /\ 0 <= c.rect.x /\ c.rect.x + c.rect.w <= MapW
                 /\ 0 <= c.rect.y /\ c.rect.y + c.rect.h <= MapH
                 /\ fired_x => c.position_x = c.rect.x * SubPix
                 /\ fired_y => c.position_y = c.rect.y * SubPix
                 /\ ~fired_x => c.position_x = m.position_x /\ c.rect.x = m.rect.x
                 /\ ~fired_y => c.position_y = m.position_y /\ c.rect.y = m.rect.y
                 /\ c.current_speed = 0
            ELSE c = m

\* a vehicle moving at the right edge of the map has been put back and stopped
C33_Witness ==
    /\ log.op = "drive"
    /\ log.before.current_speed > 0 /\ log.before.angle % 4 = 0
    /\ ToInt(log.before.position_x + log.before.current_speed * dt) + log.before.rect.w > MapW
    /\ cars[log.car].rect.x + cars[log.car].rect.w = MapW
    /\ cars[log.car].current_speed = 0

\* C34: in the step in which every enemy thinks, a live enemy farther from
\* the player than the chase radius has sprint off afterwards; it takes a
\* new wander direction only if now - last_decision_time > decision_speed,
\* and then last_decision_time becomes now, so that two re-rolls are more
\* than decision_speed apart; otherwise direction and last_decision_time are
\* as before.  Within the radius last_decision_time is untouched and sprint
\* is on.
C34_WanderRerollsAtInterval ==
    [][pc = "enemies" =>
          \A j \in 1..Len(enemies) :
              LET e == enemies[j]
                  t == enemies'[j]
                  far == Distance2(e, player)
                             > (DistanceToChase * SubPix) * (DistanceToChase * SubPix)
              IN  e.hp > 0 =>
                      IF far
                      THEN /\ ~t.does_sprint
                           /\ IF now - e.last_decision_time > DecisionSpeed
                              THEN /\ t.last_decision_time = now
                                   /\ t.direction \in Headings
                              ELSE /\ t.last_decision_time = e.last_decision_time
                                   /\ t.direction = e.direction
                           /\ t.last_decision_time # e.last_decision_time =>
                                  t.last_decision_time - e.last_decision_time > DecisionSpeed
                      ELSE /\ t.last_decision_time = e.last_decision_time
                           /\ t.does_sprint
      ]_vars

\* an enemy far from the player has re-rolled its direction a second time
C34_Witness ==
    /\ pc = "movement"
    /\ \E j \in 1..Len(enemies) :
           /\ enemies[j].hp > 0
           /\ enemies[j].last_decision_time = now
           /\ now >= 2 * (DecisionSpeed + 1)
           /\ ~enemies[j].does_sprint

\* C36: in move_projectiles every projectile of the list is advanced once and
\* ends in exactly one place: still on the map, expired, or in a hit; nothing
\* else is removed or left.  In the step that ends the frame every enemy of
\* the list whose fade time has passed is removed, every other enemy is left
\* as it was, and every enemy spawned in the step is in the list afterwards.
C36_RemovalSkipsNothing ==
    [][/\ pc = "projectiles" =>
              /\ \A i \in 1..Len(bullets) :
                     LET m == ProjectileMove(bullets[i], dt)
                         kept == {k \in 1..Len(bullets') : bullets'[k].id = m.id}
                         gone == {x \in 1..Len(log'.expired) : log'.expired[x].bullet = m.id}
                         hit == {h \in 1..Len(log'.hits) : log'.hits[h].bullet = m.id}
                     IN  /\ Cardinality(kept) + Cardinality(gone) + Cardinality(hit) = 1
                         /\ \A k \in kept : bullets'[k] = m
                         /\ \A x \in gone : log'.expired[x].rect = m.rect
                         /\ \A h \in hit : log'.hits[h].rect = m.rect
              /\ Len(bullets') + Len(log'.expired) + Len(log'.hits) = Len(bullets)
       /\ pc = "maintain" =>
              /\ \A j \in 1..Len(enemies) :
                     IF Faded(enemies[j], now + FadeTime - log.fade_time)
                     THEN enemies[j].id \notin Ids(enemies')
                     ELSE Cardinality({k \in 1..Len(enemies') : enemies'[k] = enemies[j]}) = 1
              /\ \A id \in (nextId.enemy + 1)..nextId'.enemy :
                     Cardinality({k \in 1..Len(enemies') : enemies'[k].id = id}) = 1
              /\ Len(enemies') = EnemyLimit
      ]_vars

\* a frame has ended in which the first projectile of the list expired and
\* the one that followed it hit an enemy, which was replaced
C36_Witness ==
    /\ pc = "frame"
    /\ log.expired # <<>> /\ log.expired[1].bullet = 1
    /\ log.hits # <<>> /\ log.hits[1].bullet = 2
    /\ Len(enemies) = EnemyLimit
    /\ \E j \in 1..Len(enemies) : enemies[j].id > EnemyLimit

(***************************************************************************)
(* The whole game once more, for driving: the enemies spawn on the far     *)
(* edge without a weapon and wander towards it, so that the player lives;  *)
(* the keys are idle, up, down or up and left, K_e enters and leaves a     *)
(* vehicle, no mouse, and no item spawns.                                   *)
(***************************************************************************)
MaxDriveTime == 4

SpecDrive ==
    InitWith({[exists |-> FALSE, text |-> <<>>]}, {d \in EnemyDraws : d[1] = MapW}, VehicleItemDraws)
    /\ [][\/ \E hover \in 0..Len(menu_options) :
                 EventMenuConfirm(hover, {d \in EnemyDraws : d[1] = MapW}, VehicleItemDraws)
          \/ EventKeyE
          \/ \E tick \in Ticks : Frame(tick, MaxDriveTime)
          \/ \E hs \in [1..Len(enemies) -> {h \in Headings : h[1] > 0}] : StepEnemies(hs)
          \/ \E direction_x \in {0 - 1, 0}, direction_y \in {0 - 1, 0, 1} :
                 StepMovement(direction_x, direction_y, FALSE)
          \/ StepUse(FALSE, <<0, 0>>)
          \/ StepProjectiles
          \/ StepMaintain({d \in EnemyDraws : d[1] = MapW})]_vars

\* C39: in every step that keeps the vehicles of the map (every step but
\* reset_game), a vehicle the player does not possess keeps its box, heading
\* and current_speed, and keeps its position too unless the step is the K_e
\* event by which the player enters it (which sets the position to the box
\* origin); a vehicle changes only as the possessed one in movement handling.
C39_OnlyPossessedVehicleDriven ==
    [][\A j \in 1..Len(cars) :
           (Len(cars') = Len(cars) /\ cars'[j].id = cars[j].id) =>
               /\ cars[j].id # player.current_vehicle =>
                      /\ cars'[j].rect = cars[j].rect
                      /\ cars'[j].angle = cars[j].angle
                      /\ cars'[j].current_speed = cars[j].current_speed
                      /\ cars[j].id # player'.current_vehicle => cars'[j] = cars[j]
               /\ (cars[j].id = player.current_vehicle /\ cars'[j] # cars[j]) =>
                      pc = "movement"]_vars

\* movement handling has just run on foot in a frame of play, next to a
\* vehicle that the player left while it was moving: its speed is not 0
C39_Witness ==
    /\ state = "PLAYING"
    /\ pc = "use"
    /\ player.current_vehicle = 0
    /\ \E j \in 1..Len(cars) : cars[j].current_speed # 0

\* C40: in every reachable state the player's collision box lies inside the
\* map rectangle on its four sides, on foot or in a vehicle, and right after
\* entering or leaving one.
C40_PlayerBoxInsideMap ==
    /\ player.rect.x >= 0
    /\ player.rect.y >= 0
    /\ Right(player.rect) <= MapW
    /\ Bottom(player.rect) <= MapH

====
